---- MODULE Spec2Model ----
(***************************************************************************)
(* Switchboard: an HTTP request broadcasting proxy.                        *)
(*                                                                         *)
(* The module models the route matcher (src/proxy/routing.rs), the fan-out *)
(* engine (src/proxy/fanout.rs) and the forwarding handler                 *)
(* (src/proxy/mod.rs).  Text is modelled at the level of characters: a     *)
(* string is a sequence of one-character strings, so that splitting,       *)
(* prefix stripping and replacement are computed as the code computes them.*)
(***************************************************************************)
EXTENDS Integers, Sequences, FiniteSets, TLC

(***************************************************************************)
(* Bounds of the model.                                                    *)
(***************************************************************************)
\* longest route table drawn for the route matcher
MaxRoutes == 2
\* number of requests the proxy serves concurrently
NumReq == 1
\* edits of the primary source's payload, successful reloads after which the
\* interval timer is no longer followed, and concurrent readers of the cell
MaxEdits == 2
MaxReloads == 2
NumReaders == 1

(***************************************************************************)
(* Option values: None is the empty sequence, Some(x) the one-element one. *)
(***************************************************************************)
None == << >>
Some(x) == << x >>
IsSome(o) == o /= << >>
Unwrap(o) == o[1]

(***************************************************************************)
(* Strings as sequences of characters.                                     *)
(***************************************************************************)
starts_with(s, p) ==
    /\ Len(s) >= Len(p)
    /\ SubSeq(s, 1, Len(p)) = p

ends_with(s, p) ==
    /\ Len(s) >= Len(p)
    /\ SubSeq(s, Len(s) - Len(p) + 1, Len(s)) = p

RECURSIVE SplitFrom(_, _, _)
SplitFrom(s, cur, acc) ==
    IF s = << >>
    THEN (IF cur = << >> THEN acc ELSE Append(acc, cur))
    ELSE IF Head(s) = "/"
         THEN SplitFrom(Tail(s), << >>, IF cur = << >> THEN acc ELSE Append(acc, cur))
         ELSE SplitFrom(Tail(s), Append(cur, Head(s)), acc)

\* path.split('/').filter(|s| !s.is_empty()).collect()
Segments(path) == SplitFrom(path, << >>, << >>)

(***************************************************************************)
(* Route matching (src/proxy/routing.rs).                                  *)
(***************************************************************************)
\* str::eq_ignore_ascii_case works on the ASCII upper-case form
AsciiUpper(m) ==
    CASE m = "get" -> "GET"
      [] m = "Get" -> "GET"
      [] m = "post" -> "POST"
      [] OTHER -> m

eq_ignore_ascii_case(a, b) == AsciiUpper(a) = AsciiUpper(b)

method_matches_same_case(methods, method) ==
    \E i \in 1..Len(methods) : methods[i] = "*" \/ methods[i] = method
method_matches(methods, method) ==
    \E i \in 1..Len(methods) :
        methods[i] = "*" \/ eq_ignore_ascii_case(methods[i], method)

\* zip stops at the shorter of the two
segments_match_params(route, request) ==
    \A i \in 1..Len(route) :
        i <= Len(request) => (route[i] = request[i] \/ Head(route[i]) = ":")
segments_match_exact(route, request) ==
    \A i \in 1..Len(route) : i <= Len(request) => route[i] = request[i]

EmptyMap == << >>

\* HashMap::insert: a later insert of the same key replaces the value
MapInsertKeepFirst(m, k, v) == m @@ (k :> v)
MapInsert(m, k, v) == (k :> v) @@ m

\* the loop over route_segments.zip(request_segments), from position i on,
\* with the values of params, specificity so far; break on a mismatch
RECURSIVE SegmentLoop(_, _, _, _, _)
SegmentLoop(rsegs, qsegs, i, params, specificity) ==
    IF i > Len(rsegs) \/ i > Len(qsegs)
    THEN [matched |-> TRUE, params |-> params, specificity |-> specificity]
    ELSE IF Head(rsegs[i]) = ":"
         THEN SegmentLoop(rsegs, qsegs, i + 1,
                          MapInsert(params, Tail(rsegs[i]), qsegs[i]),
                          specificity + 5)
         ELSE IF rsegs[i] = qsegs[i]
              THEN SegmentLoop(rsegs, qsegs, i + 1, params, specificity + 10)
              ELSE [matched |-> FALSE, params |-> params, specificity |-> specificity]

\* `if best_specificity < 0` of the catch-all branch
CatchAllTakesAlways(best) == TRUE
CatchAllTakesOnTie(best) == best.best_specificity <= 0
CatchAllTakes(best) == best.best_specificity < 0

\* `specificity > best_specificity` of the prefix and the exact branches
BeatsOrTies(specificity, best) == specificity >= best.best_specificity
Beats(specificity, best) == specificity > best.best_specificity

\* one iteration of `for (idx, route) in routes.iter().enumerate()`:
\* best is [best_match, best_specificity], idx is 0-based
RouteStep(best, idx, route, request_segments, method) ==
    IF ~method_matches(route.methods, method) THEN best
    ELSE IF route.path = <<"/", "*">> \/ route.path = <<"*">>
    THEN (IF CatchAllTakes(best)
          THEN [best_match |-> Some([idx |-> idx, params |-> EmptyMap]),
                best_specificity |-> 0]
          ELSE best)
    ELSE IF ends_with(route.path, <<"/", "*">>)
    THEN LET prefix == SubSeq(route.path, 1, Len(route.path) - 2)
             prefix_segments == Segments(prefix)
             specificity == Len(prefix_segments) * 10
         IN  IF /\ Len(request_segments) >= Len(prefix_segments)
                /\ segments_match_exact(prefix_segments,
                       SubSeq(request_segments, 1, Len(prefix_segments)))
                /\ Beats(specificity, best)
             THEN [best_match |-> Some([idx |-> idx, params |-> EmptyMap]),
                   best_specificity |-> specificity]
             ELSE best
    ELSE LET route_segments == Segments(route.path)
             r == SegmentLoop(route_segments, request_segments, 1, EmptyMap, 0)
         IN  IF Len(route_segments) /= Len(request_segments) THEN best
             ELSE IF r.matched /\ Beats(r.specificity, best)
             THEN [best_match |-> Some([idx |-> idx, params |-> r.params]),
                   best_specificity |-> r.specificity]
             ELSE best

RECURSIVE RouteLoop(_, _, _, _, _)
RouteLoop(routes, i, best, request_segments, method) ==
    IF i > Len(routes) THEN best
    ELSE RouteLoop(routes, i + 1,
                   RouteStep(best, i - 1, routes[i], request_segments, method),
                   request_segments, method)

\* Option<(usize, HashMap<String, String>)>
match_route(routes, path, method) ==
    RouteLoop(routes, 1, [best_match |-> None, best_specificity |-> -1],
              Segments(path), method).best_match

(***************************************************************************)
(* The scoring rules of route matching, stated per route.                  *)
(***************************************************************************)
IsCatchAll(r) == r.path = <<"/", "*">> \/ r.path = <<"*">>
IsPrefixWildcard(r) == ~IsCatchAll(r) /\ ends_with(r.path, <<"/", "*">>)
IsParamSeg(seg) == Head(seg) = ":"
PrefixSegs(r) == Segments(SubSeq(r.path, 1, Len(r.path) - 2))

AcceptsMethod(r, m) ==
    \E i \in 1..Len(r.methods) :
        r.methods[i] = "*" \/ AsciiUpper(r.methods[i]) = AsciiUpper(m)

\* the score the route matching rules give a route for a request, -1 when the
\* route does not qualify
RECURSIVE SumSeq(_)
SumSeq(s) == IF s = << >> THEN 0 ELSE Head(s) + SumSeq(Tail(s))

RuleScore(r, p, m) ==
    LET q == Segments(p)
        rs == Segments(r.path)
        ps == PrefixSegs(r)
    IN  IF ~AcceptsMethod(r, m) THEN -1
        ELSE IF IsCatchAll(r) THEN 0
        ELSE IF IsPrefixWildcard(r)
        THEN (IF Len(q) >= Len(ps) /\ SubSeq(q, 1, Len(ps)) = ps
              THEN 10 * Len(ps) ELSE -1)
        ELSE IF /\ Len(rs) = Len(q)
                /\ \A i \in 1..Len(rs) : IsParamSeg(rs[i]) \/ rs[i] = q[i]
        THEN SumSeq([i \in 1..Len(rs) |-> IF IsParamSeg(rs[i]) THEN 5 ELSE 10])
        ELSE -1

(***************************************************************************)
(* The inputs of the route matcher.                                        *)
(***************************************************************************)
VARIABLES
    routes,      \* match_route's route table
    path,        \* the request path
    method,      \* the request method
    result,      \* what match_route returned
    rpc,         \* "init", "matched" or "inserted"
    before,      \* the table and the result before a route was inserted
    inserted_at  \* 1-based position of the inserted route, 0 if none

rvars == <<routes, path, method, result, rpc, before, inserted_at>>

Rt(p, ms) == [path |-> p, methods |-> ms]

\* the routes the tables are drawn from
RoutePool ==
    { Rt(<<"/", "*">>, <<"*">>),
      Rt(<<"*">>, <<"*">>),
      Rt(<<"/">>, <<"*">>),
      Rt(<<"/", "a">>, <<"*">>),
      Rt(<<"/", "a", "/", "*">>, <<"*">>),
      Rt(<<"/", "a", "/", "b">>, <<"*">>),
      Rt(<<"/", "a", "/", ":", "x">>, <<"*">>),
      Rt(<<"/", ":", "x", "/", ":", "x">>, <<"*">>),
      Rt(<<"/", ":", "x", "/", "*">>, <<"*">>),
      Rt(<<"/", "a">>, <<"GET">>),
      Rt(<<"/", "a">>, <<"post", "Get">>) }

\* the request paths and methods drawn
RequestPaths ==
    { <<"/">>,
      <<"/", "a">>,
      <<"/", "a", "/">>,
      <<"/", "a", "/", "b">>,
      <<"/", ":", "x", "/", "a">>,
      <<"/", "a", "/", "b", "/", "a">> }

RequestMethods == {"GET", "POST"}

IsInjective(s) == \A i, j \in 1..Len(s) : s[i] = s[j] => i = j

\* route tables of at most n pairwise different routes
Tables(n) ==
    UNION { { t \in [1..k -> RoutePool] : IsInjective(t) } : k \in 1..n }

InsertAt(s, i, e) == SubSeq(s, 1, i - 1) \o <<e>> \o SubSeq(s, i, Len(s))

(***************************************************************************)
(* Target URLs (src/proxy/fanout.rs).                                      *)
(***************************************************************************)
\* str::replace: every non-overlapping occurrence of pat, left to right
RECURSIVE Replace(_, _, _)
Replace(s, pat, val) ==
    IF Len(s) < Len(pat) THEN s
    ELSE IF SubSeq(s, 1, Len(pat)) = pat
         THEN val \o Replace(SubSeq(s, Len(pat) + 1, Len(s)), pat, val)
         ELSE <<Head(s)>> \o Replace(Tail(s), pat, val)

\* the orders sort_by_key(Reverse(k.len())) can leave the entries in: the sort
\* is stable and the map's iteration order is arbitrary, so keys of equal length
\* come in any order
SortedEntries(params) ==
    { o \in [1..Cardinality(DOMAIN params) -> DOMAIN params] :
        /\ \A i, j \in DOMAIN o : o[i] = o[j] => i = j
        /\ \A i, j \in DOMAIN o : i < j => Len(o[i]) >= Len(o[j]) }

RECURSIVE ReplaceAll(_, _, _, _)
ReplaceAll(url, params, sorted_entries, i) ==
    IF i > Len(sorted_entries) THEN url
    ELSE ReplaceAll(Replace(url, <<":">> \o sorted_entries[i], params[sorted_entries[i]]),
                    params, sorted_entries, i + 1)

substitute_params(url_template, params, sorted_entries) ==
    ReplaceAll(url_template, params, sorted_entries, 1)

Http == <<"h", "t", "t", "p", ":", "/", "/">>
HostChars == {"a", "b", "c", "p", "q", "s", "_"}
Digits == {"0", "1", "2", "3", "4", "5", "6", "7", "8", "9"}

RECURSIVE TakeUntil(_, _)
TakeUntil(s, c) ==
    IF s = << >> \/ Head(s) = c THEN << >> ELSE <<Head(s)>> \o TakeUntil(Tail(s), c)

\* url::Url::parse on the URLs the model's templates produce, all of the http
\* scheme: the host must be non-empty and free of forbidden characters and the
\* port, if any, must be decimal
UrlParses(url) ==
    /\ starts_with(url, Http)
    /\ LET authority == TakeUntil(SubSeq(url, Len(Http) + 1, Len(url)), "/")
           host == TakeUntil(authority, ":")
           port == SubSeq(authority, Len(host) + 2, Len(authority))
       IN  /\ host /= << >>
           /\ \A i \in 1..Len(host) : host[i] \in HostChars
           /\ \A i \in 1..Len(port) : port[i] \in Digits

\* hyper::Request::builder().uri(resolved_url): http::Uri rejects a space
UriValid(url) == \A i \in 1..Len(url) : url[i] /= " "

(***************************************************************************)
(* Config (src/config/model.rs).                                           *)
(***************************************************************************)
default_timeout == 5000

Target(url, primary, timeout) == [url |-> url, primary |-> primary, timeout |-> timeout]

Route(p, ms, timeout, targets) ==
    [path |-> p, methods |-> ms, timeout |-> timeout, targets |-> targets]

\* the validated Config the proxy serves: a parameterised route with a secondary
\* declared before its primary (the parameter is the primary's host), and a
\* literal route whose only target has a space in its path
LiveConfig ==
    [defaults |-> [timeout |-> default_timeout],
     routes |-> <<
        Route(<<"/", ":", "x">>, <<"*">>, None,
              << Target(Http \o <<"s", "/">>, FALSE, Some(100)),
                 Target(Http \o <<":", "x", "/">>, TRUE, None) >>),
        Route(<<"/", "a">>, <<"*">>, Some(200),
              << Target(Http \o <<"p", "/", "a", " ", "b">>, FALSE, None) >>) >>]

(***************************************************************************)
(* Config sources and the resolver (src/config/sources, src/config/mod.rs) *)
(***************************************************************************)
Ok(x) == [ok |-> TRUE, val |-> x]
Err(e) == [ok |-> FALSE, val |-> e]

\* the payloads a source can hold: A and B are valid configs, V parses but has
\* no route, X does not parse, F is the fallback file; MISSING is a source
\* whose payload cannot be read
Contents == {"A", "B", "V", "X"}
MISSING == "MISSING"
NoFallback == "NONE"

Cfg(timeout, rts) == [defaults |-> [timeout |-> timeout], routes |-> rts]

\* (self.deserialize)(&content)
deserialize(content) ==
    CASE content = "A" ->
           Ok(Cfg(3000, << Route(<<"/", "a">>, <<"*">>, None,
                                 << Target(Http \o <<"p", "/">>, TRUE, None) >>) >>))
      [] content = "B" ->
           Ok(Cfg(default_timeout,
                  << Route(<<"/", "b">>, <<"*">>, None,
                           << Target(Http \o <<"s", "/">>, TRUE, None) >>),
                     Route(<<"/", "a">>, <<"*">>, Some(100),
                           << Target(Http \o <<"q", "/">>, TRUE, None) >>) >>))
      [] content = "F" ->
           Ok(Cfg(default_timeout,
                  << Route(<<"/", "a">>, <<"*">>, None,
                           << Target(Http \o <<"c", "/">>, TRUE, None) >>) >>))
      [] content = "V" -> Ok(Cfg(default_timeout, << >>))
      [] content = "G" ->
           Ok(Cfg(default_timeout,
                  << Route(<<"/", ":", "x">>, <<"get", "POST">>, None,
                           << Target(Http \o <<"s", "/">>, FALSE, None),
                              Target(Http \o <<":", "x", "/">>, TRUE, None) >>) >>))
      [] content = "N" ->
           Ok(Cfg(default_timeout, << Route(<<"/", "a">>, <<"*">>, None, << >>) >>))
      [] content = "D" ->
           Ok(Cfg(default_timeout,
                  << Route(<<"/", "a">>, <<"GET">>, None,
                           << Target(Http \o <<"s", "/">>, TRUE, None) >>),
                     Route(<<"/", "a">>, <<"POST">>, None,
                           << Target(Http \o <<"q", "/">>, TRUE, None) >>) >>))
      [] content = "P" ->
           Ok(Cfg(default_timeout,
                  << Route(<<"/", "a">>, <<"*">>, None,
                           << Target(Http \o <<"s", "/">>, TRUE, None),
                              Target(Http \o <<"q", "/">>, TRUE, None) >>) >>))
      [] content = "M" ->
           Ok(Cfg(default_timeout,
                  << Route(<<"/", "a">>, <<"GET", "FETCH">>, None,
                           << Target(Http \o <<"s", "/">>, TRUE, None) >>) >>))
      [] content = "U" ->
           Ok(Cfg(default_timeout,
                  << Route(<<"/", "a">>, <<"*">>, None,
                           << Target(<<"s", "/">>, TRUE, None) >>) >>))
      [] content = "Q" ->
           Ok(Cfg(default_timeout,
                  << Route(<<"a">>, <<"*">>, None,
                           << Target(Http \o <<"s", "/">>, TRUE, None) >>) >>))
      [] OTHER -> Err("ConfigParse")

VALID_METHODS == {"GET", "POST", "PUT", "DELETE", "PATCH", "HEAD", "OPTIONS", "*"}

validate_path(route_path) ==
    /\ route_path /= << >>
    /\ (starts_with(route_path, <<"/">>) \/ route_path = <<"*">>)

validate_method(http_method) == AsciiUpper(http_method) \in VALID_METHODS

\* char::is_alphabetic and char::is_alphanumeric on the characters of the
\* model's URLs
is_alphabetic(c) == c \notin Digits \cup {"/", ":", " ", "*", "?", "=", "_"}
is_alphanumeric(c) == is_alphabetic(c) \/ c \in Digits

\* the characters of a placeholder's name are skipped
RECURSIVE SkipName(_)
SkipName(s) ==
    IF s /= << >> /\ (is_alphanumeric(Head(s)) \/ Head(s) = "_")
    THEN SkipName(Tail(s)) ELSE s

RECURSIVE replace_params_for_validation(_)
replace_params_for_validation(url) ==
    IF url = << >> THEN << >>
    ELSE IF /\ Head(url) = ":"
            /\ Len(url) > 1
            /\ (is_alphabetic(url[2]) \/ url[2] = "_")
    THEN <<"_", "p">> \o replace_params_for_validation(SkipName(Tail(url)))
    ELSE <<Head(url)>> \o replace_params_for_validation(Tail(url))

\* Url::parse of the test URL succeeds with the scheme http or https
validate_target_url(url) == UrlParses(replace_params_for_validation(url))

\* the checks of the loop over config.routes for the route at position i
route_errors(rts, i) ==
    \/ ~validate_path(rts[i].path)
    \/ \E j \in 1..(i - 1) : rts[j].path = rts[i].path
    \/ \E k \in 1..Len(rts[i].methods) : ~validate_method(rts[i].methods[k])
    \/ Len(rts[i].targets) = 0
    \/ Cardinality({ k \in 1..Len(rts[i].targets) : rts[i].targets[k].primary }) > 1
    \/ \E k \in 1..Len(rts[i].targets) : ~validate_target_url(rts[i].targets[k].url)

\* validate, without the checks of the actuator section: a config without
\* routes or with an error in a route is rejected
validate_routes_present(config) ==
    IF Len(config.routes) = 0 THEN Err("ConfigValidation") ELSE Ok(config)
validate(config) ==
    IF Len(config.routes) = 0 THEN Err("ConfigValidation")
    ELSE IF \E i \in 1..Len(config.routes) : route_errors(config.routes, i)
    THEN Err("ConfigValidation")
    ELSE Ok(config)

\* the lower-case hex SHA-256 digest: different contents, different digests
sha256_hex(data) == <<"sha256", data>>

ConfigVersion(hash) == [Hash |-> hash]

\* tokio::fs::read_to_string(&self.path)
read_content(payload) == IF payload = MISSING THEN Err("Io") ELSE Ok(payload)

\* FileSource::load on a source holding payload
FileSource_load(payload) ==
    LET content == read_content(payload)
    IN  IF ~content.ok THEN content
        ELSE LET config == deserialize(content.val)
             IN  IF ~config.ok THEN config
                 ELSE IF ~validate(config.val).ok THEN validate(config.val)
                 ELSE Ok([config |-> config.val,
                          version |-> ConfigVersion(sha256_hex(content.val))])

\* the payloads the sources of the specifications hold, and what load returns
\* for each of them
Payloads == {"A", "B", "F", "V", "X", "G", "N", "D", "P", "M", "U", "Q", MISSING}
Loads == [payload \in Payloads |-> FileSource_load(payload)]
load(payload) ==
    IF payload \in Payloads THEN Loads[payload] ELSE FileSource_load(payload)

\* FileSource::has_changed
has_changed_same(payload, current) ==
    LET content == read_content(payload)
    IN  IF ~content.ok THEN content
        ELSE Ok(current = ConfigVersion(sha256_hex(content.val)))
has_changed(payload, current) ==
    LET content == read_content(payload)
    IN  IF ~content.ok THEN content
        ELSE Ok(current /= ConfigVersion(sha256_hex(content.val)))

\* ConfigResolver::load_with_fallback on the payloads of the two sources
load_with_fallback(sources) ==
    LET primary == load(sources.primary)
    IN  IF primary.ok THEN primary
        ELSE IF sources.fallback /= NoFallback THEN load(sources.fallback)
        ELSE primary

\* args.timeout: the CLI's default target timeout
args_timeout == 5000

\* execute: the LoadedConfig built at startup from the resolver's first load
StartupConfig(loaded) ==
    [config |-> IF args_timeout /= loaded.config.defaults.timeout
                THEN [loaded.config EXCEPT !.defaults.timeout = args_timeout]
                ELSE loaded.config,
     version |-> loaded.version,
     source_name |-> "primary",
     loaded_at |-> 0,
     config_w |-> 0,
     version_w |-> 0]

(***************************************************************************)
(* The live config cell, its readers and the refresh loop                  *)
(* (src/server.rs, src/cmd/run.rs, src/health.rs, src/proxy/mod.rs).       *)
(***************************************************************************)
VARIABLES
    src,       \* the payloads of the resolver's primary and fallback sources
    cell,      \* state.config: the LoadedConfig behind the RwLock; config_w and
               \* version_w record which write set config and version
    lock,      \* the RwLock: writer held, and the readers holding it
    fpc,       \* config_refresh_loop's position
    flocal,    \* config_refresh_loop's locals: current_version and the load result
    reloads,   \* state.stats.config_reloads
    shutdown,  \* whether shutdown_tx.send(true) happened
    tick,      \* whether interval.tick() is ready
    edits,     \* how often the primary's payload was edited
    hist,      \* what the refresh loop did: the sources has_changed was called on,
               \* the outcome of the last completed tick, the number of ticks
               \* completed since the payloads last changed, the (config, version)
               \* pairs installed
    rd         \* per reader: its position, what it copied under the read lock,
               \* the route it matched and the targets it dispatched to

cvars == <<src, cell, lock, fpc, flocal, reloads, shutdown, tick, edits, hist, rd>>

Readers == 1..NumReaders

ReaderPaths == { <<"/", "a">>, <<"/", "b">> }

IdleReader ==
    [pc |-> "idle", kind |-> "none", path |-> << >>, snap |-> None,
     matched |-> None, used |-> None]

Installed(lc) == [config |-> lc.config, version |-> lc.version]

\* the cell and the refresh loop as execute leaves them for a resolver whose
\* sources hold the payloads sources
Started(sources) ==
    /\ src = sources
    /\ cell = StartupConfig(load_with_fallback(sources).val)
    /\ lock = [writer |-> FALSE, readers |-> {}]
    /\ flocal = [current_version |-> None, loaded |-> None]
    /\ reloads = 0
    /\ shutdown = FALSE
    /\ tick = FALSE
    /\ edits = 0
    /\ hist = [probed |-> {}, outcome |-> "none", stable |-> 0, dirty |-> FALSE,
               installed |-> {Installed(StartupConfig(load_with_fallback(sources).val))}]
    /\ rd = [r \in Readers |-> IdleReader]

ReloadOff ==
    /\ Started([primary |-> "A", fallback |-> NoFallback])
    /\ fpc = "off"

(***************************************************************************)
(* Fan-out and the forwarding handler (src/proxy/fanout.rs, mod.rs).       *)
(***************************************************************************)
Requests == 1..NumReq

\* the request paths clients send to the proxy
ClientPaths ==
    { <<"/", "b">>,
      <<"/", "b", ":", "c">>,
      <<"/", "a">>,
      <<"/", "a", "/", "b">> }

\* the methods clients use
ClientMethods == {"GET"}

\* the statuses a target answers with
UpstreamStatuses == {200, 500}

VARIABLES
    hpc,        \* per request: "idle", "awaiting" (fan_out awaits the primary), "done"
    req,        \* per request: Some([path, method]) once it arrived
    matched,    \* per request: what match_route returned to the handler
    tasks,      \* per request: target index (0-based) -> dispatch task
    spawned,    \* per request: the target indexes passed to tokio::spawn, in order
    observed,   \* per request: primary completions fan_out observed
    response,   \* per request: Some(response) once emitted
    forwarded,  \* state.stats.forwarded
    failed      \* state.stats.failed

pvars == <<hpc, req, matched, tasks, spawned, observed, response, forwarded, failed>>

(***************************************************************************)
(* One call of ConfigResolver::load_with_fallback, step by step            *)
(* (src/config/mod.rs).                                                    *)
(***************************************************************************)
VARIABLES
    rs_src,      \* the payloads of the resolver's primary and fallback sources
    rs_pc,       \* load_with_fallback's position
    rs_calls,    \* the load() calls made by the running or last call, in order
    rs_primary,  \* what self.primary.load().await returned
    rs_fallback, \* what fallback.load().await returned
    rs_ret       \* what load_with_fallback returned

lvars == <<rs_src, rs_pc, rs_calls, rs_primary, rs_fallback, rs_ret>>

ResolverOff ==
    /\ rs_src = [primary |-> "A", fallback |-> NoFallback]
    /\ rs_pc = "off"
    /\ rs_calls = << >>
    /\ rs_primary = None
    /\ rs_fallback = None
    /\ rs_ret = None

(***************************************************************************)
(* The router built by build_router in front of the handlers               *)
(* (src/server.rs).                                                        *)
(***************************************************************************)
VARIABLES
    sv_actuator,   \* whether the build has the "actuator" feature
    sv_routes,     \* the routes of the installed config
    sv_req,        \* the request: path and method
    sv_pc,         \* the request's position
    sv_handler,    \* the handler the router called
    sv_dispatched, \* the target URLs the request was dispatched to
    sv_status      \* the status of the response

svars == <<sv_actuator, sv_routes, sv_req, sv_pc, sv_handler, sv_dispatched, sv_status>>

ServerOff ==
    /\ sv_actuator = FALSE
    /\ sv_routes = << >>
    /\ sv_req = [path |-> <<"/">>, method |-> "GET"]
    /\ sv_pc = "off"
    /\ sv_handler = "none"
    /\ sv_dispatched = {}
    /\ sv_status = 0

(***************************************************************************)
(* One proxied request and the headers it carries (src/proxy/mod.rs,       *)
(* src/proxy/fanout.rs, src/proxy/headers.rs).                             *)
(***************************************************************************)
VARIABLES
    hd_config,   \* the installed config: defaults and its one route
    hd_request,  \* the client's request: path, headers, body
    hd_pc,       \* forward_handler's position
    hd_cid,      \* correlation_id
    hd_sent,     \* per target: the headers and body of the request built for it
    hd_resp      \* the response returned to the caller

hvars == <<hd_config, hd_request, hd_pc, hd_cid, hd_sent, hd_resp>>

HeadersOff ==
    /\ hd_config = << >>
    /\ hd_request = << >>
    /\ hd_pc = "off"
    /\ hd_cid = << >>
    /\ hd_sent = << >>
    /\ hd_resp = None

(***************************************************************************)
(* substitute_params on drawn templates and parameter maps                 *)
(* (src/proxy/fanout.rs).                                                  *)
(***************************************************************************)
VARIABLES
    sp_template,  \* url_template
    sp_params,    \* params
    sp_pc,        \* whether substitute_params has run
    sp_out        \* the resolved URL

uvars == <<sp_template, sp_params, sp_pc, sp_out>>

SubstOff ==
    /\ sp_template = << >>
    /\ sp_params = << >>
    /\ sp_pc = "off"
    /\ sp_out = << >>

(***************************************************************************)
(* One call of fan_out on a route of a validated config                    *)
(* (src/proxy/fanout.rs, src/proxy/mod.rs).                                *)
(***************************************************************************)
VARIABLES
    fo_route,           \* req.route: the matched route of the request's snapshot
    fo_defaults,        \* req.defaults: the defaults of the request's snapshot
    fo_params,          \* req.params: the parameters match_route captured
    fo_pc,              \* "idle", "awaiting" (fan_out awaits the primary), "done"
    fo_tasks,           \* target index (0-based) -> dispatch task
    fo_spawned,         \* the target indexes passed to tokio::spawn, in order
    fo_primary_handle,  \* primary_handle: Some(idx) once the loop stored a handle
    fo_resp,            \* Some(response) once forward_handler emitted it
    fo_forwarded,       \* state.stats.forwarded
    fo_failed           \* state.stats.failed

fovars == <<fo_route, fo_defaults, fo_params, fo_pc, fo_tasks, fo_spawned,
            fo_primary_handle, fo_resp, fo_forwarded, fo_failed>>

FanOff ==
    /\ fo_route = << >>
    /\ fo_defaults = << >>
    /\ fo_params = << >>
    /\ fo_pc = "off"
    /\ fo_tasks = << >>
    /\ fo_spawned = << >>
    /\ fo_primary_handle = << >>
    /\ fo_resp = << >>
    /\ fo_forwarded = 0
    /\ fo_failed = 0

(***************************************************************************)
(* The actuator behind its two guards, next to the refresh loop            *)
(* (src/actuator/mod.rs, src/actuator/health.rs, src/server.rs,            *)
(* src/cmd/run.rs).                                                        *)
(***************************************************************************)
VARIABLES
    ac_env,      \* ACTUATOR_AUTH_USERNAME / ACTUATOR_AUTH_PASSWORD of the process
    ac_src,      \* the payload of the config source: its actuator section and a
                 \* revision standing for the rest of the content
    ac_cell,     \* state.config: the actuator section of the live config and the
                 \* version
    ac_start,    \* the actuator section execute installed at startup
    ac_removed,  \* whether an edit of the payload took credentials out of it
    ac_readers,  \* the read guards of state.config that are held
    ac_fpc,      \* config_refresh_loop: "idle", or "write" while it waits for
                 \* state.config.write()
    ac_loaded,   \* what load_with_fallback returned to the loop
    ac_edits,    \* how often the payload was edited
    ac_rq        \* per request task: kind, position, guards held, status

avars == <<ac_env, ac_src, ac_cell, ac_start, ac_removed, ac_readers, ac_fpc,
           ac_loaded, ac_edits, ac_rq>>

ActuatorOff ==
    /\ ac_env = << >>
    /\ ac_src = << >>
    /\ ac_cell = << >>
    /\ ac_start = << >>
    /\ ac_removed = FALSE
    /\ ac_readers = 0
    /\ ac_fpc = "off"
    /\ ac_loaded = << >>
    /\ ac_edits = 0
    /\ ac_rq = << >>

evars == <<lvars, svars, hvars, uvars, fovars, avars>>

ExtrasOff == ResolverOff /\ ServerOff /\ HeadersOff /\ SubstOff /\ FanOff /\ ActuatorOff

vars == <<rvars, pvars, cvars, evars>>

TerminalStates ==
    {"RESPONDED_OK", "RESPONDED_BODY_ERR", "TRANSPORT_ERR", "TIMED_OUT", "BUILD_ERR"}

\* a dispatch task: st is its state, late whether the effective timeout has
\* elapsed since the request was sent, status the status the target answered
Task(st, url, timeout_ms) ==
    [st |-> st, url |-> url, timeout_ms |-> timeout_ms, late |-> FALSE, status |-> 0]

\* req.targets.iter().position(|t| t.primary).unwrap_or(0)
primary_idx_zero(targets) == 0
primary_idx(targets) ==
    IF \E i \in 1..Len(targets) : targets[i].primary
    THEN (CHOOSE i \in 1..Len(targets) :
             /\ targets[i].primary
             /\ \A j \in 1..(i - 1) : ~targets[j].primary) - 1
    ELSE 0

\* target.timeout.or(req.route.timeout).unwrap_or(req.defaults.timeout)
timeout_ms_route_first(target, route, defaults) ==
    IF IsSome(route.timeout) THEN Unwrap(route.timeout)
    ELSE IF IsSome(target.timeout) THEN Unwrap(target.timeout)
    ELSE defaults.timeout
timeout_ms(target, route, defaults) ==
    IF IsSome(target.timeout) THEN Unwrap(target.timeout)
    ELSE IF IsSome(route.timeout) THEN Unwrap(route.timeout)
    ELSE defaults.timeout

\* `match url::Url::parse(&resolved_url)`: Err => continue
DispatchAlways(resolved_url) == TRUE
Dispatchable(resolved_url) == UrlParses(resolved_url)

\* the loop of fan_out over the targets: the task spawned for each target, or
\* SKIPPED for a target the loop skipped
SpawnTasks_break(route, defaults, params, sorted_entries) ==
    [idx \in 0..(Len(route.targets) - 1) |->
        LET target == route.targets[idx + 1]
            resolved_url == substitute_params(target.url, params, sorted_entries)
            resolved(i) == substitute_params(route.targets[i].url, params, sorted_entries)
        IN  Task(IF \A i \in 1..(idx + 1) : Dispatchable(resolved(i))
                 THEN "PENDING" ELSE "SKIPPED",
                 resolved_url, timeout_ms(target, route, defaults))]
SpawnTasks(route, defaults, params, sorted_entries) ==
    [idx \in 0..(Len(route.targets) - 1) |->
        LET target == route.targets[idx + 1]
            resolved_url == substitute_params(target.url, params, sorted_entries)
        IN  Task(IF Dispatchable(resolved_url) THEN "PENDING" ELSE "SKIPPED",
                 resolved_url, timeout_ms(target, route, defaults))]

RECURSIVE SpawnOrder(_, _)
SpawnOrder(ts, idx) ==
    IF idx \notin DOMAIN ts THEN << >>
    ELSE (IF ts[idx].st = "SKIPPED" THEN << >> ELSE <<idx>>) \o SpawnOrder(ts, idx + 1)

\* the second component of a finished task's result: Some((status, headers,
\* body_bytes)) only when the body was collected
response_data_lenient(ts, idx) ==
    IF ts[idx].st \in {"RESPONDED_OK", "RESPONDED_BODY_ERR"}
    THEN Some([status |-> ts[idx].status, body |-> Some(idx)])
    ELSE None
response_data(ts, idx) ==
    IF ts[idx].st = "RESPONDED_OK"
    THEN Some([status |-> ts[idx].status, body |-> Some(idx)])
    ELSE None

\* whether `handle.await` on the primary's JoinHandle can complete
all_handles_ready(ts, pidx) ==
    \A idx \in DOMAIN ts : ts[idx].st \in TerminalStates \cup {"SKIPPED"}
primary_handle_ready(ts, pidx) == ts[pidx].st \in TerminalStates

\* the target whose result fan_out returns as primary_response
any_responded(ts, pidx) ==
    IF \E idx \in DOMAIN ts : ts[idx].st = "RESPONDED_OK"
    THEN CHOOSE idx \in DOMAIN ts : ts[idx].st = "RESPONDED_OK"
    ELSE pidx
awaited_handle(ts, pidx) == pidx

BAD_GATEWAY == [status |-> 502, body |-> None]
NOT_FOUND == [status |-> 404, body |-> None]

\* Response::builder().status(status) ... .body(body_bytes): the status and the
\* headers are typed values of the upstream response, so the builder accepts them
build_response(data) == Some([status |-> data.status, body |-> data.body])

\* forward_handler after fan_out returned primary_response: the response and
\* the counter it increments
Respond(primary_response) ==
    IF IsSome(primary_response)
    THEN [counter |-> "forwarded",
          response |-> LET built == build_response(Unwrap(primary_response))
                       IN  IF IsSome(built) THEN Unwrap(built) ELSE BAD_GATEWAY]
    ELSE [counter |-> "failed", response |-> BAD_GATEWAY]

Emit(r, out) ==
    /\ response' = [response EXCEPT ![r] = Some(out.response)]
    /\ forwarded' = forwarded + (IF out.counter = "forwarded" THEN 1 ELSE 0)
    /\ failed' = failed + (IF out.counter = "failed" THEN 1 ELSE 0)
    /\ hpc' = [hpc EXCEPT ![r] = "done"]

ProxyIdle ==
    /\ hpc = [r \in Requests |-> "idle"]
    /\ req = [r \in Requests |-> None]
    /\ matched = [r \in Requests |-> None]
    /\ tasks = [r \in Requests |-> << >>]
    /\ spawned = [r \in Requests |-> << >>]
    /\ observed = [r \in Requests |-> 0]
    /\ response = [r \in Requests |-> None]
    /\ forwarded = 0
    /\ failed = 0

\* forward_handler up to the first await of fan_out: route matching on the
\* config, then the spawn loop; without a primary handle fan_out returns at once
ForwardHandler(r) ==
    /\ hpc[r] = "idle"
    /\ \E p \in ClientPaths, m \in ClientMethods :
          LET found == match_route(LiveConfig.routes, p, m)
          IN  /\ req' = [req EXCEPT ![r] = Some([path |-> p, method |-> m])]
              /\ matched' = [matched EXCEPT ![r] = found]
              /\ IF ~IsSome(found)
                 THEN /\ response' = [response EXCEPT ![r] = Some(NOT_FOUND)]
                      /\ hpc' = [hpc EXCEPT ![r] = "done"]
                      /\ UNCHANGED <<tasks, spawned, forwarded, failed>>
                 ELSE LET route == LiveConfig.routes[Unwrap(found).idx + 1]
                          params == Unwrap(found).params
                      IN  \E sorted_entries \in SortedEntries(params) :
                             LET ts == SpawnTasks(route, LiveConfig.defaults,
                                                  params, sorted_entries)
                                 pidx == primary_idx(route.targets)
                             IN  /\ tasks' = [tasks EXCEPT ![r] = ts]
                                 /\ spawned' = [spawned EXCEPT ![r] = SpawnOrder(ts, 0)]
                                 /\ IF ts[pidx].st = "SKIPPED"
                                    THEN Emit(r, Respond(None))
                                    ELSE /\ hpc' = [hpc EXCEPT ![r] = "awaiting"]
                                         /\ UNCHANGED <<response, forwarded, failed>>
    /\ UNCHANGED <<observed, rvars, cvars, evars>>

SetTask(r, idx, t) == tasks' = [tasks EXCEPT ![r][idx] = t]

\* first poll of a spawned task: the hyper request is built and sent
TaskStart(r, idx) ==
    /\ tasks[r][idx].st = "PENDING"
    /\ SetTask(r, idx, [tasks[r][idx] EXCEPT
                          !.st = IF UriValid(tasks[r][idx].url)
                                 THEN "IN_FLIGHT" ELSE "BUILD_ERR"])
    /\ UNCHANGED <<hpc, req, matched, spawned, observed, response, forwarded, failed, rvars, cvars, evars>>

\* the effective timeout elapses while the dispatch is not complete
TimerElapse(r, idx) ==
    /\ tasks[r][idx].st \in {"IN_FLIGHT", "READING_BODY"}
    /\ ~tasks[r][idx].late
    /\ SetTask(r, idx, [tasks[r][idx] EXCEPT !.late = TRUE])
    /\ UNCHANGED <<hpc, req, matched, spawned, observed, response, forwarded, failed, rvars, cvars, evars>>

\* client.request(req) resolves with the response head before the timeout
RequestResponds(r, idx) ==
    /\ tasks[r][idx].st = "IN_FLIGHT"
    /\ ~tasks[r][idx].late
    /\ \E status \in UpstreamStatuses :
          SetTask(r, idx, [tasks[r][idx] EXCEPT !.st = "READING_BODY", !.status = status])
    /\ UNCHANGED <<hpc, req, matched, spawned, observed, response, forwarded, failed, rvars, cvars, evars>>

\* client.request(req) resolves with an error before the timeout
TransportError(r, idx) ==
    /\ tasks[r][idx].st = "IN_FLIGHT"
    /\ ~tasks[r][idx].late
    /\ SetTask(r, idx, [tasks[r][idx] EXCEPT !.st = "TRANSPORT_ERR"])
    /\ UNCHANGED <<hpc, req, matched, spawned, observed, response, forwarded, failed, rvars, cvars, evars>>

\* tokio::time::timeout(timeout, client.request(req)) resolves with Elapsed
TimedOut(r, idx) ==
    /\ tasks[r][idx].st = "IN_FLIGHT"
    /\ tasks[r][idx].late
    /\ SetTask(r, idx, [tasks[r][idx] EXCEPT !.st = "TIMED_OUT"])
    /\ UNCHANGED <<hpc, req, matched, spawned, observed, response, forwarded, failed, rvars, cvars, evars>>

\* response.into_body().collect().await returns the body
BodyCollected(r, idx) ==
    /\ tasks[r][idx].st = "READING_BODY"
    /\ SetTask(r, idx, [tasks[r][idx] EXCEPT !.st = "RESPONDED_OK"])
    /\ UNCHANGED <<hpc, req, matched, spawned, observed, response, forwarded, failed, rvars, cvars, evars>>

\* response.into_body().collect().await returns an error
BodyReadError(r, idx) ==
    /\ tasks[r][idx].st = "READING_BODY"
    /\ SetTask(r, idx, [tasks[r][idx] EXCEPT !.st = "RESPONDED_BODY_ERR"])
    /\ UNCHANGED <<hpc, req, matched, spawned, observed, response, forwarded, failed, rvars, cvars, evars>>

PrimaryOf(r) == primary_idx(LiveConfig.routes[Unwrap(matched[r]).idx + 1].targets)

\* `handle.await` completes: fan_out returns the primary's result and
\* forward_handler emits the response
PrimaryJoin(r) ==
    /\ hpc[r] = "awaiting"
    /\ primary_handle_ready(tasks[r], PrimaryOf(r))
    /\ observed' = [observed EXCEPT ![r] = @ + 1]
    /\ Emit(r, Respond(response_data(tasks[r], awaited_handle(tasks[r], PrimaryOf(r)))))
    /\ UNCHANGED <<req, matched, tasks, spawned, rvars, cvars, evars>>

RouterOff ==
    /\ routes = << >>
    /\ path = << >>
    /\ method = "GET"
    /\ result = None
    /\ rpc = "off"
    /\ before = None
    /\ inserted_at = 0

Init == RouterOff /\ ProxyIdle /\ ReloadOff /\ ExtrasOff

Next ==
    \/ \E r \in Requests : ForwardHandler(r)
    \/ \E r \in Requests : PrimaryJoin(r)
    \/ \E r \in Requests : \E idx \in DOMAIN tasks[r] : TaskStart(r, idx)
    \/ \E r \in Requests : \E idx \in DOMAIN tasks[r] : TimerElapse(r, idx)
    \/ \E r \in Requests : \E idx \in DOMAIN tasks[r] : RequestResponds(r, idx)
    \/ \E r \in Requests : \E idx \in DOMAIN tasks[r] : TransportError(r, idx)
    \/ \E r \in Requests : \E idx \in DOMAIN tasks[r] : TimedOut(r, idx)
    \/ \E r \in Requests : \E idx \in DOMAIN tasks[r] : BodyCollected(r, idx)
    \/ \E r \in Requests : \E idx \in DOMAIN tasks[r] : BodyReadError(r, idx)

Spec == Init /\ [][Next]_vars

(***************************************************************************)
(* The route matcher applied to drawn route tables and requests.           *)
(***************************************************************************)
RouteInit ==
    /\ routes \in Tables(MaxRoutes)
    /\ path \in RequestPaths
    /\ method \in RequestMethods
    /\ result = None
    /\ rpc = "init"
    /\ before = None
    /\ inserted_at = 0
    /\ ProxyIdle
    /\ ExtrasOff
    /\ ReloadOff

\* a call of match_route
MatchRoute ==
    /\ rpc = "init"
    /\ result' = match_route(routes, path, method)
    /\ rpc' = "matched"
    /\ UNCHANGED <<routes, path, method, before, inserted_at, pvars, cvars, evars>>

\* a route that scores lower for the request than the selected route is added
\* to the table, at any position, and the request is matched again
InsertRoute ==
    /\ rpc = "matched"
    /\ IsSome(result)
    /\ \E i \in 1..(Len(routes) + 1), r \in RoutePool :
          /\ \A j \in 1..Len(routes) : routes[j] /= r
          /\ RuleScore(r, path, method)
                < RuleScore(routes[Unwrap(result).idx + 1], path, method)
          /\ routes' = InsertAt(routes, i, r)
          /\ inserted_at' = i
    /\ before' = Some([routes |-> routes, result |-> result])
    /\ result' = match_route(routes', path, method)
    /\ rpc' = "inserted"
    /\ UNCHANGED <<path, method, pvars, cvars, evars>>

RouteNext == MatchRoute \/ InsertRoute

SpecRoute == RouteInit /\ [][RouteNext]_vars

(***************************************************************************)
(* The route matcher applied to tables of method-restricted routes.        *)
(***************************************************************************)
\* routes that differ in their methods lists
MethodPool ==
    { Rt(<<"/", "a">>, <<"GET">>),
      Rt(<<"/", "a">>, <<"POST">>),
      Rt(<<"/", "a">>, <<"post">>),
      Rt(<<"/", "a">>, <<"Get">>),
      Rt(<<"/", "a">>, <<"post", "Get">>),
      Rt(<<"/", "a">>, <<"*">>),
      Rt(<<"/", "b">>, <<"GET">>) }

MethodRequestMethods == {"GET", "get", "POST", "DELETE"}

MethodTables(n) ==
    UNION { { t \in [1..k -> MethodPool] : IsInjective(t) } : k \in 1..n }

MethodInit ==
    /\ routes \in MethodTables(MaxRoutes)
    /\ path \in { <<"/", "a">>, <<"/", "b">> }
    /\ method \in MethodRequestMethods
    /\ result = None
    /\ rpc = "init"
    /\ before = None
    /\ inserted_at = 0
    /\ ProxyIdle
    /\ ExtrasOff
    /\ ReloadOff

SpecMethod == MethodInit /\ [][MatchRoute]_vars

(***************************************************************************)
(* Hot reload: the refresh loop, the sources' payloads and the readers of  *)
(* the live config cell.                                                   *)
(***************************************************************************)
ReloadInit ==
    /\ \E sources \in [primary : Contents \cup {MISSING}, fallback : {NoFallback, "F", "X"}] :
          /\ load_with_fallback(sources).ok
          /\ Started(sources)
    /\ fpc = "select"
    /\ RouterOff
    /\ ProxyIdle
    /\ ExtrasOff

\* the operator of the primary source replaces its payload
EditPrimary ==
    /\ edits < MaxEdits
    /\ \E payload \in (Contents \cup {MISSING}) \ {src.primary} :
          src' = [src EXCEPT !.primary = payload]
    /\ edits' = edits + 1
    /\ hist' = [hist EXCEPT !.dirty = TRUE, !.stable = 0]
    /\ UNCHANGED <<cell, lock, fpc, flocal, reloads, shutdown, tick, rd, rvars, pvars, evars>>

\* the poll interval elapses
TimerFires ==
    /\ ~tick
    /\ fpc /= "exited"
    /\ reloads < MaxReloads
    /\ tick' = TRUE
    /\ UNCHANGED <<src, cell, lock, fpc, flocal, reloads, shutdown, edits, hist, rd,
                   rvars, pvars, evars>>

\* server::shutdown_signal() resolves and shutdown_tx.send(true) runs
ShutdownSignal ==
    /\ ~shutdown
    /\ shutdown' = TRUE
    /\ UNCHANGED <<src, cell, lock, fpc, flocal, reloads, tick, edits, hist, rd,
                   rvars, pvars, evars>>

\* tokio::select! completes with the interval.tick() branch
SelectTick ==
    /\ fpc = "select"
    /\ tick
    /\ tick' = FALSE
    /\ fpc' = "read_version"
    /\ hist' = [hist EXCEPT !.dirty = FALSE]
    /\ UNCHANGED <<src, cell, lock, flocal, reloads, shutdown, edits, rd, rvars, pvars, evars>>

\* tokio::select! completes with the shutdown.changed() branch: return
SelectShutdown ==
    /\ fpc = "select"
    /\ shutdown
    /\ fpc' = "exited"
    /\ UNCHANGED <<src, cell, lock, flocal, reloads, shutdown, tick, edits, hist, rd,
                   rvars, pvars, evars>>

\* let current_version = state.config.read().await.version.clone()
ReadVersion ==
    /\ fpc = "read_version"
    /\ ~lock.writer
    /\ flocal' = [flocal EXCEPT !.current_version = Some(cell.version)]
    /\ fpc' = "has_changed"
    /\ UNCHANGED <<src, cell, lock, reloads, shutdown, tick, edits, hist, rd, rvars, pvars, evars>>

\* the arm of `match ... has_changed(..)` that reloads
reload_unless_unchanged(changed) == ~changed.ok \/ changed.val
should_reload(changed) == changed.ok /\ changed.val

\* a tick of the loop ends with outcome
TickDone(h, outcome) ==
    [h EXCEPT !.outcome = outcome,
              !.stable = IF h.dirty THEN 0 ELSE IF h.stable < 2 THEN h.stable + 1 ELSE 2]

\* resolver.primary().has_changed(&current_version).await and its match
HasChanged ==
    /\ fpc = "has_changed"
    /\ LET changed == has_changed(src.primary, Unwrap(flocal.current_version))
           probed == [hist EXCEPT !.probed = @ \cup {"primary"}]
       IN  IF should_reload(changed)
           THEN /\ fpc' = "load_primary"
                /\ hist' = probed
           ELSE /\ fpc' = "select"
                /\ hist' = TickDone(probed, IF changed.ok THEN "unchanged" ELSE "check_err")
    /\ UNCHANGED <<src, cell, lock, flocal, reloads, shutdown, tick, edits, rd, rvars, pvars, evars>>

\* where the loop continues after `Err(e) => tracing::error!(..)`
return_on_load_error == "exited"
continue_on_load_error == "select"

\* resolver.load_with_fallback(): self.primary.load().await
LoadPrimary ==
    /\ fpc = "load_primary"
    /\ LET primary == load(src.primary)
       IN  IF primary.ok
           THEN /\ flocal' = [flocal EXCEPT !.loaded = Some(primary.val)]
                /\ fpc' = "write"
                /\ hist' = hist
           ELSE IF src.fallback /= NoFallback
           THEN /\ fpc' = "load_fallback"
                /\ UNCHANGED <<flocal, hist>>
           ELSE /\ fpc' = continue_on_load_error
                /\ hist' = TickDone(hist, "load_err")
                /\ flocal' = flocal
    /\ UNCHANGED <<src, cell, lock, reloads, shutdown, tick, edits, rd, rvars, pvars, evars>>

\* resolver.load_with_fallback(): fallback.load().await
LoadFallback ==
    /\ fpc = "load_fallback"
    /\ LET fallback == load(src.fallback)
       IN  IF fallback.ok
           THEN /\ flocal' = [flocal EXCEPT !.loaded = Some(fallback.val)]
                /\ fpc' = "write"
                /\ hist' = hist
           ELSE /\ fpc' = continue_on_load_error
                /\ hist' = TickDone(hist, "load_err")
                /\ flocal' = flocal
    /\ UNCHANGED <<src, cell, lock, reloads, shutdown, tick, edits, rd, rvars, pvars, evars>>

\* state.config.write().await is granted; loaded.config = Arc::new(config)
WriteConfig ==
    /\ fpc = "write"
    /\ lock.readers = {}
    /\ lock' = [lock EXCEPT !.writer = TRUE]
    /\ cell' = [cell EXCEPT !.config = Unwrap(flocal.loaded).config,
                            !.config_w = cell.loaded_at + 1]
    /\ fpc' = "write_version"
    /\ UNCHANGED <<src, flocal, reloads, shutdown, tick, edits, hist, rd, rvars, pvars, evars>>

\* loaded.version = version
WriteVersion ==
    /\ fpc = "write_version"
    /\ cell' = [cell EXCEPT !.version = Unwrap(flocal.loaded).version,
                            !.version_w = cell.loaded_at + 1]
    /\ fpc' = "write_loaded_at"
    /\ UNCHANGED <<src, lock, flocal, reloads, shutdown, tick, edits, hist, rd, rvars, pvars, evars>>

\* loaded.loaded_at = Instant::now(); drop(loaded)
WriteLoadedAt ==
    /\ fpc = "write_loaded_at"
    /\ cell' = [cell EXCEPT !.loaded_at = @ + 1]
    /\ lock' = [lock EXCEPT !.writer = FALSE]
    /\ hist' = [hist EXCEPT !.installed = @ \cup {Installed(cell')}]
    /\ fpc' = "count"
    /\ UNCHANGED <<src, flocal, reloads, shutdown, tick, edits, rd, rvars, pvars, evars>>

\* state.stats.config_reloads.fetch_add(1)
CountReload ==
    /\ fpc = "count"
    /\ reloads' = reloads + 1
    /\ flocal' = [current_version |-> None, loaded |-> None]
    /\ hist' = TickDone(hist, "reloaded")
    /\ fpc' = "select"
    /\ UNCHANGED <<src, cell, lock, shutdown, tick, edits, rd, rvars, pvars, evars>>

\* whether state.config.read().await is granted: no writer holds the lock and
\* none is queued for it
read_granted_always == TRUE
read_granted == ~lock.writer /\ fpc /= "write"

\* health_handler under the read lock: config, source_name, version, loaded_at
HealthRead(r) ==
    /\ rd[r].pc = "idle"
    /\ read_granted
    /\ lock' = [lock EXCEPT !.readers = @ \cup {r}]
    /\ rd' = [rd EXCEPT ![r] = [IdleReader EXCEPT !.pc = "holding", !.kind = "health",
                                                   !.snap = Some(cell)]]
    /\ UNCHANGED <<src, cell, fpc, flocal, reloads, shutdown, tick, edits, hist,
                   rvars, pvars, evars>>

\* forward_handler under the read lock: Arc::clone(&config_guard.config) and
\* match_route on it
ProxyRead(r) ==
    /\ rd[r].pc = "idle"
    /\ read_granted
    /\ lock' = [lock EXCEPT !.readers = @ \cup {r}]
    /\ \E p \in ReaderPaths :
          rd' = [rd EXCEPT ![r] =
                    [IdleReader EXCEPT !.pc = "holding", !.kind = "proxy", !.path = p,
                                       !.snap = Some([config |-> cell.config]),
                                       !.matched = match_route(cell.config.routes, p, "GET")]]
    /\ UNCHANGED <<src, cell, fpc, flocal, reloads, shutdown, tick, edits, hist,
                   rvars, pvars, evars>>

\* the read guard of reader r goes out of scope
guard_kept(readers, r) == readers
guard_dropped(readers, r) == readers \ {r}

\* the guard is dropped; a request without a route is answered 404
Release(r) ==
    /\ rd[r].pc = "holding"
    /\ lock' = [lock EXCEPT !.readers = guard_dropped(@, r)]
    /\ IF rd[r].kind = "proxy" /\ IsSome(rd[r].matched)
       THEN rd' = [rd EXCEPT ![r].pc = "matched"]
       ELSE rd' = [rd EXCEPT ![r] = IdleReader]
    /\ UNCHANGED <<src, cell, fpc, flocal, reloads, shutdown, tick, edits, hist,
                   rvars, pvars, evars>>

\* the config forward_handler takes the route and the defaults from
live_config(r) == cell.config
request_config(r) == Unwrap(rd[r].snap).config

\* forward_handler after the lock: route = &config.routes[route_idx], defaults
\* = &config.defaults, and the FanOutRequest built from them
Dispatch(r) ==
    /\ rd[r].pc = "matched"
    /\ LET config == request_config(r)
           route == config.routes[Unwrap(rd[r].matched).idx + 1]
       IN  rd' = [rd EXCEPT ![r].pc = "dispatched",
                            ![r].used = Some([targets |-> route.targets,
                                              timeouts |-> [i \in 1..Len(route.targets) |->
                                                  timeout_ms(route.targets[i], route,
                                                             config.defaults)]])]
    /\ UNCHANGED <<src, cell, lock, fpc, flocal, reloads, shutdown, tick, edits, hist,
                   rvars, pvars, evars>>

\* the request completes
Finish(r) ==
    /\ rd[r].pc = "dispatched"
    /\ rd' = [rd EXCEPT ![r] = IdleReader]
    /\ UNCHANGED <<src, cell, lock, fpc, flocal, reloads, shutdown, tick, edits, hist,
                   rvars, pvars, evars>>

\* the refresh loop and its environment
ReloadNext ==
    \/ EditPrimary
    \/ TimerFires
    \/ ShutdownSignal
    \/ SelectTick
    \/ SelectShutdown
    \/ ReadVersion
    \/ HasChanged
    \/ LoadPrimary
    \/ LoadFallback
    \/ WriteConfig
    \/ WriteVersion
    \/ WriteLoadedAt
    \/ CountReload

SpecReload == ReloadInit /\ [][ReloadNext]_vars

\* the poll interval keeps elapsing and the runtime keeps polling the loop
SpecReloadFair ==
    /\ SpecReload
    /\ WF_vars(TimerFires)
    /\ WF_vars(SelectTick \/ ReadVersion \/ HasChanged \/ LoadPrimary \/ LoadFallback
                  \/ WriteConfig \/ WriteVersion \/ WriteLoadedAt \/ CountReload)

\* the readers of the cell next to the refresh loop, for a proxy started on
\* payload A without a fallback source
CellInit ==
    /\ Started([primary |-> "A", fallback |-> NoFallback])
    /\ fpc = "select"
    /\ RouterOff
    /\ ProxyIdle
    /\ ExtrasOff

CellNext ==
    \/ EditPrimary
    \/ TimerFires
    \/ SelectTick
    \/ ReadVersion
    \/ HasChanged
    \/ LoadPrimary
    \/ WriteConfig
    \/ WriteVersion
    \/ WriteLoadedAt
    \/ CountReload
    \/ \E r \in Readers : HealthRead(r)
    \/ \E r \in Readers : ProxyRead(r)
    \/ \E r \in Readers : Release(r)
    \/ \E r \in Readers : Dispatch(r)
    \/ \E r \in Readers : Finish(r)

SpecCell == CellInit /\ [][CellNext]_vars

\* the same next to a resolver that has a fallback source
LockInit ==
    /\ Started([primary |-> "A", fallback |-> "F"])
    /\ fpc = "select"
    /\ RouterOff
    /\ ProxyIdle
    /\ ExtrasOff

LockNext ==
    \/ CellNext
    \/ LoadFallback

SpecLock == LockInit /\ [][LockNext]_vars

(***************************************************************************)
(* ConfigResolver::load_with_fallback on drawn sources.                    *)
(***************************************************************************)
\* the payloads a fallback source can hold
FallbackContents == {"F", "V", "X", MISSING}

ResolverInit ==
    /\ rs_src \in [primary : Contents \cup {MISSING},
                   fallback : FallbackContents \cup {NoFallback}]
    /\ rs_pc = "idle"
    /\ rs_calls = << >>
    /\ rs_primary = None
    /\ rs_fallback = None
    /\ rs_ret = None
    /\ RouterOff
    /\ ProxyIdle
    /\ ReloadOff
    /\ ServerOff
    /\ HeadersOff
    /\ SubstOff
    /\ FanOff
    /\ ActuatorOff

\* the payload of a source is replaced while the resolver is not loading;
\* whether the resolver has a fallback is fixed by ConfigResolver::new
EditSource ==
    /\ rs_pc \in {"idle", "returned"}
    /\ \/ \E payload \in (Contents \cup {MISSING}) \ {rs_src.primary} :
             rs_src' = [rs_src EXCEPT !.primary = payload]
       \/ /\ rs_src.fallback /= NoFallback
          /\ \E payload \in FallbackContents \ {rs_src.fallback} :
                rs_src' = [rs_src EXCEPT !.fallback = payload]
    /\ UNCHANGED <<rs_pc, rs_calls, rs_primary, rs_fallback, rs_ret, rvars, pvars, cvars, svars, hvars, uvars, fovars, avars>>

\* resolver.load_with_fallback() is called
CallResolver ==
    /\ rs_pc \in {"idle", "returned"}
    /\ rs_pc' = "primary_load"
    /\ rs_calls' = << >>
    /\ rs_primary' = None
    /\ rs_fallback' = None
    /\ rs_ret' = None
    /\ UNCHANGED <<rs_src, rvars, pvars, cvars, svars, hvars, uvars, fovars, avars>>

\* self.primary.load().await
PrimaryLoad ==
    /\ rs_pc = "primary_load"
    /\ rs_primary' = Some(load(rs_src.primary))
    /\ rs_calls' = Append(rs_calls, "primary.load")
    /\ rs_pc' = "match"
    /\ UNCHANGED <<rs_src, rs_fallback, rs_ret, rvars, pvars, cvars, svars, hvars, uvars, fovars, avars>>

\* Ok(result) => Ok(result)
ReturnPrimary ==
    /\ rs_pc = "match"
    /\ Unwrap(rs_primary).ok
    /\ rs_ret' = rs_primary
    /\ rs_pc' = "returned"
    /\ UNCHANGED <<rs_src, rs_calls, rs_primary, rs_fallback, rvars, pvars, cvars, svars, hvars, uvars, fovars, avars>>

\* the arm Err(primary_err) with `if let Some(ref fallback) = self.fallback`
takes_fallback_always(primary, sources) == sources.fallback /= NoFallback
takes_fallback(primary, sources) == ~primary.ok /\ sources.fallback /= NoFallback

\* fallback.load().await, whose result is the call's result
FallbackLoad ==
    /\ rs_pc = "match"
    /\ takes_fallback(Unwrap(rs_primary), rs_src)
    /\ rs_fallback' = Some(load(rs_src.fallback))
    /\ rs_calls' = Append(rs_calls, "fallback.load")
    /\ rs_ret' = rs_fallback'
    /\ rs_pc' = "returned"
    /\ UNCHANGED <<rs_src, rs_primary, rvars, pvars, cvars, svars, hvars, uvars, fovars, avars>>

\* else { Err(primary_err) }
ReturnPrimaryError ==
    /\ rs_pc = "match"
    /\ ~Unwrap(rs_primary).ok
    /\ rs_src.fallback = NoFallback
    /\ rs_ret' = rs_primary
    /\ rs_pc' = "returned"
    /\ UNCHANGED <<rs_src, rs_calls, rs_primary, rs_fallback, rvars, pvars, cvars, svars, hvars, uvars, fovars, avars>>

ResolverNext ==
    \/ EditSource
    \/ CallResolver
    \/ PrimaryLoad
    \/ ReturnPrimary
    \/ FallbackLoad
    \/ ReturnPrimaryError

SpecResolver == ResolverInit /\ [][ResolverNext]_vars


(***************************************************************************)
(* build_router: which handler serves a request.                           *)
(***************************************************************************)
HealthPath == <<"/", "h", "e", "a", "l", "t", "h">>
ActuatorPath == <<"/", "a", "c", "t", "u", "a", "t", "o", "r">>

\* actuator_router(): the routes nested under /actuator that the requests of
\* ServerPaths can hit (the index and /metrics/{name} are not requested)
ActuatorRoutes ==
    { HealthPath,
      <<"/", "i", "n", "f", "o">>,
      <<"/", "e", "n", "v">> }

\* Router::nest("/actuator", actuator_router()) has a route for path
nest_matches(prefix, uri_path) == \E inner \in ActuatorRoutes : uri_path = prefix \o inner

\* axum::routing::get(handler): GET, and HEAD answered by the GET handler;
\* any other method is answered 405 by the method router
get_accepts(http_method) == http_method \in {"GET", "HEAD"}

\* the handler build_router's Router calls for a request
build_router_fallback_only(uri_path, http_method, actuator) == "forward_handler"
build_router(uri_path, http_method, actuator) ==
    IF uri_path = HealthPath
    THEN IF get_accepts(http_method) THEN "health_handler" ELSE "method_not_allowed"
    ELSE IF actuator /\ nest_matches(ActuatorPath, uri_path) THEN "actuator_router"
    ELSE "forward_handler"

\* the routes the installed configs are made of: routes claiming /health,
\* catch-alls and others, each with its own target
ServerPool ==
    { Route(HealthPath, <<"*">>, None, << Target(Http \o <<"a", "/">>, TRUE, None) >>),
      Route(HealthPath, <<"POST">>, None, << Target(Http \o <<"b", "/">>, TRUE, None) >>),
      Route(<<"/", "*">>, <<"*">>, None, << Target(Http \o <<"c", "/">>, TRUE, None) >>),
      Route(<<"*">>, <<"*">>, None, << Target(Http \o <<"p", "/">>, TRUE, None) >>),
      Route(<<"/", ":", "x">>, <<"*">>, None, << Target(Http \o <<"q", "/">>, TRUE, None) >>),
      Route(ActuatorPath \o <<"/", "*">>, <<"*">>, None,
            << Target(Http \o <<"s", "/">>, FALSE, None) >>) }

ServerTables(n) ==
    UNION { { t \in [1..k -> ServerPool] :
                \A i, j \in 1..k : t[i].path = t[j].path => i = j } : k \in 1..n }

ServerPaths ==
    { HealthPath,
      HealthPath \o <<"/">>,
      HealthPath \o <<"/", "x">>,
      <<"/", "h">>,
      ActuatorPath \o HealthPath }

ServerMethods == {"GET", "HEAD", "POST", "DELETE"}

ServerInit ==
    /\ sv_actuator \in BOOLEAN
    /\ sv_routes \in ServerTables(MaxRoutes)
    /\ sv_req \in [path : ServerPaths, method : ServerMethods]
    /\ sv_pc = "arrived"
    /\ sv_handler = "none"
    /\ sv_dispatched = {}
    /\ sv_status = 0
    /\ RouterOff
    /\ ProxyIdle
    /\ ReloadOff
    /\ ResolverOff
    /\ HeadersOff
    /\ SubstOff
    /\ FanOff
    /\ ActuatorOff

\* the Router picks the handler
RouteRequest ==
    /\ sv_pc = "arrived"
    /\ sv_handler' = build_router(sv_req.path, sv_req.method, sv_actuator)
    /\ sv_pc' = "handling"
    /\ UNCHANGED <<sv_actuator, sv_routes, sv_req, sv_dispatched, sv_status,
                   rvars, pvars, cvars, lvars, hvars, uvars, fovars, avars>>

\* health_handler answers 200 itself, the method router 405; the actuator
\* answers behind its guards (404 when disabled, 401 without credentials)
AnswerLocally ==
    /\ sv_pc = "handling"
    /\ sv_handler \in {"health_handler", "method_not_allowed", "actuator_router"}
    /\ sv_status' \in CASE sv_handler = "health_handler" -> {200}
                        [] sv_handler = "method_not_allowed" -> {405}
                        [] OTHER -> {200, 401, 404, 405}
    /\ sv_pc' = "done"
    /\ UNCHANGED <<sv_actuator, sv_routes, sv_req, sv_handler, sv_dispatched,
                   rvars, pvars, cvars, lvars, hvars, uvars, fovars, avars>>

\* forward_handler: match_route on the installed routes, then fan_out to the
\* targets of the matched route, or 404
ForwardRequest ==
    /\ sv_pc = "handling"
    /\ sv_handler = "forward_handler"
    /\ LET m == match_route(sv_routes, sv_req.path, sv_req.method)
       IN  IF IsSome(m)
           THEN LET route == sv_routes[Unwrap(m).idx + 1]
                IN  /\ sv_dispatched' =
                          { route.targets[i].url : i \in 1..Len(route.targets) }
                    /\ sv_status' \in UpstreamStatuses \cup {BAD_GATEWAY.status}
           ELSE /\ sv_dispatched' = {}
                /\ sv_status' = NOT_FOUND.status
    /\ sv_pc' = "done"
    /\ UNCHANGED <<sv_actuator, sv_routes, sv_req, sv_handler, rvars, pvars, cvars, lvars, hvars, uvars, fovars, avars>>

ServerNext ==
    \/ RouteRequest
    \/ AnswerLocally
    \/ ForwardRequest

SpecServer == ServerInit /\ [][ServerNext]_vars

(***************************************************************************)
(* Header construction (src/proxy/headers.rs).  A HeaderMap is a function  *)
(* from lower-case header names to values; a value is a sequence of text   *)
(* chunks, "," and " " being chunks of their own.                          *)
(***************************************************************************)
\* a byte outside visible ASCII (to_str fails on it) and a line break
\* (HeaderValue::from_str fails on it)
OBS == "\\x80"
NL == "\\n"

HeaderMapNew == << >>
HeaderGet(headers, name) == IF name \in DOMAIN headers THEN Some(headers[name]) ELSE None
HeaderInsert(headers, name, val) ==
    [n \in DOMAIN headers \cup {name} |-> IF n = name THEN val ELSE headers[n]]
HeaderRemove(headers, name) == [n \in DOMAIN headers \ {name} |-> headers[n]]

\* HeaderValue::to_str: only visible ASCII reads as text
to_str(val) == IF \E i \in 1..Len(val) : val[i] = OBS THEN None ELSE Some(val)

\* HeaderValue::from_str: control characters are rejected
HeaderValue_from_str(s) == IF \E i \in 1..Len(s) : s[i] = NL THEN None ELSE Some(s)

\* key.parse::<HeaderName>(): the name in lower case, or an error for a key
\* that is not a token
HeaderName_parse(key) ==
    CASE key = "X-Tag" -> Some("x-tag")
      [] key = "Content-Type" -> Some("content-type")
      [] key = "bad name" -> None
      [] key = "" -> None
      [] OTHER -> Some(key)

HOP_BY_HOP_but_te ==
    {"connection", "keep-alive", "transfer-encoding", "trailer", "upgrade",
     "proxy-authorization", "proxy-authenticate"}
HOP_BY_HOP ==
    {"connection", "keep-alive", "transfer-encoding", "te", "trailer", "upgrade",
     "proxy-authorization", "proxy-authenticate"}

\* a parsed target URL: scheme, host and the port written in it, if any
Url(scheme, host, port) == [scheme |-> scheme, host |-> host, port |-> port]

\* Url::port(): None when the URL has no port or the scheme's default one
url_port(target_url) ==
    IF target_url.port = Some(IF target_url.scheme = "https" THEN "443" ELSE "80")
    THEN None
    ELSE target_url.port

\* host, or format!("{host}:{port}")
host_value(target_url) ==
    IF IsSome(url_port(target_url))
    THEN <<target_url.host, ":", Unwrap(url_port(target_url))>>
    ELSE <<target_url.host>>

RECURSIVE trim_start(_)
trim_start(s) == IF s /= << >> /\ Head(s) = " " THEN trim_start(Tail(s)) ELSE s
RECURSIVE trim_end(_)
trim_end(s) ==
    IF s /= << >> /\ s[Len(s)] = " " THEN trim_end(SubSeq(s, 1, Len(s) - 1)) ELSE s
trim(s) == trim_end(trim_start(s))

\* the X-Forwarded-For chain: the value already in the outgoing set, if it
\* reads as text, with ", " and client_ip appended; client_ip otherwise
xff_chain(headers, client_ip) ==
    LET existing == IF IsSome(HeaderGet(headers, "x-forwarded-for"))
                    THEN to_str(Unwrap(HeaderGet(headers, "x-forwarded-for")))
                    ELSE None
    IN  IF IsSome(existing) THEN Unwrap(existing) \o <<",", " ">> \o client_ip
        ELSE client_ip

\* xff.split(',').next().unwrap_or(client_ip).trim()
real_ip_client(xff, client_ip) == trim(client_ip)
real_ip(xff, client_ip) == trim(TakeUntil(xff, ","))

\* X-Forwarded-Host: the Host the client targeted
forwarded_host_of_target(original, target_url) == Some(host_value(target_url))
forwarded_host(original, target_url) == HeaderGet(original, "host")

\* headers.insert(name, val) when the value is a valid HeaderValue
InsertIfValid(headers, name, s) ==
    IF IsSome(HeaderValue_from_str(s))
    THEN HeaderInsert(headers, name, Unwrap(HeaderValue_from_str(s)))
    ELSE headers

\* the `if defaults.proxy_headers` block
add_proxy_headers(headers, original, client_ip, target_url, correlation_id) ==
    LET xff == xff_chain(headers, client_ip)
        h1 == InsertIfValid(headers, "x-forwarded-for", xff)
        h2 == InsertIfValid(h1, "x-real-ip", real_ip(xff, client_ip))
        h3 == InsertIfValid(h2, "x-forwarded-proto",
                            IF target_url.scheme = "https" THEN <<"https">> ELSE <<"http">>)
        h4 == IF IsSome(forwarded_host(original, target_url))
              THEN HeaderInsert(h3, "x-forwarded-host",
                                Unwrap(forwarded_host(original, target_url)))
              ELSE h3
        h5 == InsertIfValid(h4, "via", <<"1.1 switchboard">>)
    IN  InsertIfValid(h5, "x-correlation-id", correlation_id)

\* `for (key, value) in &rules.add`, the map iterated in the order keys
RECURSIVE apply_add(_, _, _, _)
apply_add(headers, add, keys, i) ==
    IF i > Len(keys) THEN headers
    ELSE LET name == HeaderName_parse(keys[i])
             val == HeaderValue_from_str(add[keys[i]])
         IN  apply_add(IF IsSome(name) /\ IsSome(val)
                       THEN HeaderInsert(headers, Unwrap(name), Unwrap(val))
                       ELSE headers,
                       add, keys, i + 1)

\* `for key in &rules.strip`
RECURSIVE apply_strip(_, _, _)
apply_strip(headers, strip, i) ==
    IF i > Len(strip) THEN headers
    ELSE apply_strip(IF IsSome(HeaderName_parse(strip[i]))
                     THEN HeaderRemove(headers, Unwrap(HeaderName_parse(strip[i])))
                     ELSE headers,
                     strip, i + 1)

\* the four rule loops: defaults add, route add, defaults strip, route strip
apply_rules_strip_first(headers, route, defaults, dkeys, rkeys) ==
    LET h1 == apply_strip(headers, defaults.headers.strip, 1)
        h2 == apply_strip(h1, route.headers.strip, 1)
        h3 == apply_add(h2, defaults.headers.add, dkeys, 1)
    IN  apply_add(h3, route.headers.add, rkeys, 1)
apply_rules(headers, route, defaults, dkeys, rkeys) ==
    LET h1 == apply_add(headers, defaults.headers.add, dkeys, 1)
        h2 == apply_add(h1, route.headers.add, rkeys, 1)
        h3 == apply_strip(h2, defaults.headers.strip, 1)
    IN  apply_strip(h3, route.headers.strip, 1)

\* build_forwarded_headers; dkeys and rkeys are the orders in which the two
\* add maps are iterated
build_forwarded_headers(original, client_ip, target_url, route, defaults, correlation_id, dkeys, rkeys) ==
    LET h0 == IF defaults.forward_headers THEN original ELSE HeaderMapNew
        h1 == IF defaults.strip_hop_by_hop
              THEN [n \in DOMAIN h0 \ HOP_BY_HOP |-> h0[n]]
              ELSE h0
        h2 == InsertIfValid(h1, "host", host_value(target_url))
        h3 == IF defaults.proxy_headers
              THEN add_proxy_headers(h2, original, client_ip, target_url, correlation_id)
              ELSE h2
    IN  apply_rules(h3, route, defaults, dkeys, rkeys)

\* strip_response_hop_by_hop
strip_response_hop_by_hop(headers) ==
    [n \in DOMAIN headers \ (HOP_BY_HOP \cup {"content-length"}) |-> headers[n]]

(***************************************************************************)
(* forward_handler and fan_out with the headers of every message.          *)
(***************************************************************************)
HeaderRules(add, strip) == [add |-> add, strip |-> strip]

\* the header rules configs are drawn from: none, adds of one name in two
\* spellings, a strip of an added name, rules on proxy and hop-by-hop headers,
\* and rules with an invalid name or value next to a valid one
RulesPool ==
    { HeaderRules(<< >>, << >>),
      HeaderRules([k \in {"x-tag"} |-> <<"d">>], << >>),
      HeaderRules([k \in {"X-Tag"} |-> <<"r">>], << >>),
      HeaderRules([k \in {"x-tag", "X-Tag"} |-> IF k = "x-tag" THEN <<"t">> ELSE <<"T">>],
                  << >>),
      HeaderRules(<< >>, <<"X-Tag">>),
      HeaderRules(<< >>, <<"bad name", "x-correlation-id", "Content-Type">>),
      HeaderRules([k \in {"connection", "content-type"} |->
                      IF k = "connection" THEN <<"close">> ELSE <<"text/plain">>],
                  << >>),
      HeaderRules([k \in {"bad name", "x-tag", "via"} |->
                      IF k = "x-tag" THEN <<"a", NL, "b">> ELSE <<"v">>],
                  <<"">>) }

\* the header sets clients send
Originals ==
    { << >>,
      [n \in {"host", "connection", "content-type"} |->
          CASE n = "host" -> <<"proxy.example">>
            [] n = "connection" -> <<"keep-alive">>
            [] OTHER -> <<"application/json">>],
      [n \in {"host", "x-forwarded-for", "x-correlation-id", "x-tag", "te"} |->
          CASE n = "host" -> <<"proxy.example">>
            [] n = "x-forwarded-for" -> <<"1.2.3.4">>
            [] n = "x-correlation-id" -> <<"cid-1">>
            [] n = "x-tag" -> <<"o">>
            [] OTHER -> <<"trailers">>],
      [n \in {"x-forwarded-for", "x-forwarded-proto", "upgrade"} |->
          CASE n = "x-forwarded-for" -> <<" ", "1.2.3.4", " ", ",", "5.6.7.8">>
            [] n = "x-forwarded-proto" -> <<"https">>
            [] OTHER -> <<"websocket">>],
      [n \in {"x-forwarded-for", "x-correlation-id"} |-> <<OBS>>] }

\* the parsed URLs of a route's targets, the first one the primary
TargetLists ==
    { << Url("http", "a", None) >>,
      << Url("http", "a", Some("80")), Url("http", "b", Some("8080")) >>,
      << Url("http", "a", None), Url("https", "b", None), Url("https", "c", Some("443")) >> }

\* what the primary target answers
UpstreamHeaders ==
    { [n \in {"content-type", "content-length", "connection"} |-> <<"u">>],
      [n \in {"x-correlation-id"} |-> <<"upstream-id">>] }

client_ip == <<"10.0.0.1">>

\* uuid::Uuid::new_v4().to_string()
new_uuid == <<"uuid">>

HeadersInit ==
    /\ \E forward \in BOOLEAN, proxy \in BOOLEAN, strip_hop \in BOOLEAN,
          drules \in RulesPool, rrules \in RulesPool, targets \in TargetLists :
          hd_config =
             [defaults |-> [forward_headers |-> forward, proxy_headers |-> proxy,
                            strip_hop_by_hop |-> strip_hop, headers |-> drules],
              routes |-> << [path |-> <<"/", "a">>, methods |-> <<"*">>,
                             headers |-> rrules, targets |-> targets] >>]
    /\ hd_request \in [path : { <<"/", "a">>, <<"/", "b">> }, headers : Originals,
                       body : {"body"}]
    /\ hd_pc = "arrived"
    /\ hd_cid = << >>
    /\ hd_sent = << >>
    /\ hd_resp = None
    /\ RouterOff
    /\ ProxyIdle
    /\ ReloadOff
    /\ ResolverOff
    /\ ServerOff
    /\ SubstOff
    /\ FanOff
    /\ ActuatorOff

\* req_headers.get("x-correlation-id").and_then(|v| v.to_str().ok())
\*     .map_or_else(|| Uuid::new_v4().to_string(), String::from)
correlation_id(req_headers) ==
    LET given == IF IsSome(HeaderGet(req_headers, "x-correlation-id"))
                 THEN to_str(Unwrap(HeaderGet(req_headers, "x-correlation-id")))
                 ELSE None
    IN  IF IsSome(given) THEN Unwrap(given) ELSE new_uuid

\* forward_handler: the correlation ID is chosen
ChooseCorrelationId ==
    /\ hd_pc = "arrived"
    /\ hd_cid' = correlation_id(hd_request.headers)
    /\ hd_pc' = "matching"
    /\ UNCHANGED <<hd_config, hd_request, hd_sent, hd_resp, rvars, pvars, cvars, lvars, svars, uvars, fovars, avars>>

\* forward_handler: no route matched, StatusCode::NOT_FOUND.into_response()
NoRoute ==
    /\ hd_pc = "matching"
    /\ ~IsSome(match_route(hd_config.routes, hd_request.path, "GET"))
    /\ hd_resp' = Some([status |-> 404, headers |-> << >>])
    /\ hd_pc' = "done"
    /\ UNCHANGED <<hd_config, hd_request, hd_cid, hd_sent, rvars, pvars, cvars, lvars, svars, uvars, fovars, avars>>

\* the orders in which a HashMap can be iterated
KeyOrders(map) ==
    { o \in [1..Cardinality(DOMAIN map) -> DOMAIN map] :
         \A i, j \in DOMAIN o : o[i] = o[j] => i = j }

\* fan_out: the request built for every target, all from the same original
\* headers, body and rule maps
FanOut ==
    /\ hd_pc = "matching"
    /\ IsSome(match_route(hd_config.routes, hd_request.path, "GET"))
    /\ LET route == hd_config.routes[Unwrap(match_route(hd_config.routes,
                                                        hd_request.path, "GET")).idx + 1]
           defaults == hd_config.defaults
       IN  \E dkeys \in KeyOrders(defaults.headers.add),
              rkeys \in KeyOrders(route.headers.add) :
              hd_sent' =
                 [i \in 1..Len(route.targets) |->
                     [headers |-> build_forwarded_headers(
                                     hd_request.headers, client_ip, route.targets[i],
                                     route, defaults, hd_cid, dkeys, rkeys),
                      body |-> hd_request.body]]
    /\ hd_pc' = "awaiting"
    /\ UNCHANGED <<hd_config, hd_request, hd_cid, hd_resp, rvars, pvars, cvars, lvars, svars, uvars, fovars, avars>>

\* forward_handler: the primary's response with its hop-by-hop headers
\* stripped and x-correlation-id appended
PrimaryAnswered ==
    /\ hd_pc = "awaiting"
    /\ \E status \in UpstreamStatuses, resp_headers \in UpstreamHeaders :
          LET stripped == strip_response_hop_by_hop(resp_headers)
          IN  hd_resp' =
                 Some([status |-> status,
                       headers |->
                          [n \in DOMAIN stripped \cup {"x-correlation-id"} |->
                              (IF n \in DOMAIN stripped THEN <<stripped[n]>> ELSE << >>)
                              \o (IF n = "x-correlation-id" THEN <<hd_cid>> ELSE << >>)]])
    /\ hd_pc' = "done"
    /\ UNCHANGED <<hd_config, hd_request, hd_cid, hd_sent, rvars, pvars, cvars, lvars, svars, uvars, fovars, avars>>

\* forward_handler: no primary response, StatusCode::BAD_GATEWAY.into_response()
PrimaryFailed ==
    /\ hd_pc = "awaiting"
    /\ hd_resp' = Some([status |-> 502, headers |-> << >>])
    /\ hd_pc' = "done"
    /\ UNCHANGED <<hd_config, hd_request, hd_cid, hd_sent, rvars, pvars, cvars, lvars, svars, uvars, fovars, avars>>

HeadersNext ==
    \/ ChooseCorrelationId
    \/ NoRoute
    \/ FanOut
    \/ PrimaryAnswered
    \/ PrimaryFailed

SpecHeaders == HeadersInit /\ [][HeadersNext]_vars

(***************************************************************************)
(* substitute_params applied to target URL templates.                      *)
(***************************************************************************)
\* the characters of parameter names
NameChars == {"i", "d", "T"}

ParamNames == { <<"i", "d">>, <<"i", "d", "T">>, <<"T">>, <<"d">> }

\* the values captured from request segments, one of them the segment `:d`
ParamValues == { <<"7">>, <<"4", "2">>, <<":", "d">> }

\* the parameter maps match_route can hand over
ParamMaps == UNION { [names -> ParamValues] : names \in SUBSET ParamNames }

\* target URL templates with no, one and two placeholders
Templates ==
    { Http \o <<"h", "/", "x">>,
      Http \o <<"h", "/", ":", "i", "d">>,
      Http \o <<"h", "/", ":", "i", "d", "T">>,
      Http \o <<"h", "/", ":", "i", "d", "T", "/", ":", "i", "d">>,
      Http \o <<"h", "/", ":", "i", "d", "/", ":", "i", "d", "T">>,
      Http \o <<"h", "/", ":", "T", "/", ":", "i", "d", "?", "t", "=", ":", "T">>,
      Http \o <<"h", "/", ":", "T", "/", ":", "d">> }

SubstInit ==
    /\ sp_template \in Templates
    /\ sp_params \in ParamMaps
    /\ sp_pc = "init"
    /\ sp_out = << >>
    /\ RouterOff
    /\ ProxyIdle
    /\ ReloadOff
    /\ ResolverOff
    /\ ServerOff
    /\ HeadersOff
    /\ FanOff
    /\ ActuatorOff

\* substitute_params(&target.url, req.params), the sort leaving entries of
\* equal key length in either order
SubstituteParams ==
    /\ sp_pc = "init"
    /\ \E sorted_entries \in SortedEntries(sp_params) :
          sp_out' = substitute_params(sp_template, sp_params, sorted_entries)
    /\ sp_pc' = "done"
    /\ UNCHANGED <<sp_template, sp_params, rvars, pvars, cvars, lvars, svars, hvars, fovars, avars>>

\* another template is resolved with another map
NextTemplate ==
    /\ sp_pc = "done"
    /\ sp_template' \in Templates
    /\ sp_params' \in ParamMaps
    /\ sp_pc' = "init"
    /\ sp_out' = << >>
    /\ UNCHANGED <<rvars, pvars, cvars, lvars, svars, hvars, fovars, avars>>

SubstNext ==
    \/ SubstituteParams
    \/ NextTemplate

SpecSubst == SubstInit /\ [][SubstNext]_vars

(***************************************************************************)
(* fan_out on every route shape validation lets through                    *)
(* (src/proxy/fanout.rs, src/proxy/mod.rs).                                *)
(***************************************************************************)
MaxTargets == 2

\* the target urls of the routes: one without placeholder, one whose host is
\* the captured parameter
FanUrls == { Http \o <<"s", "/">>, Http \o <<":", "x", "/">> }

FanTargets ==
    { Target(url, primary, timeout) :
        url \in FanUrls, primary \in BOOLEAN, timeout \in {None, Some(100)} }

\* the target lists validate accepts: not empty, at most one primary
FanTargetLists ==
    { targets \in UNION { [1..n -> FanTargets] : n \in 1..MaxTargets } :
        Cardinality({ i \in 1..Len(targets) : targets[i].primary }) <= 1 }

FanRoutes ==
    { Route(<<"/", ":", "x">>, <<"*">>, timeout, targets) :
        timeout \in {None, Some(200)}, targets \in FanTargetLists }

FanDefaults == { [timeout |-> default_timeout], [timeout |-> 3000] }

\* what match_route captures for the requests /b and /b:c
FanParams == { [k \in {<<"x">>} |-> <<"b">>], [k \in {<<"x">>} |-> <<"b", ":", "c">>] }

\* the outcomes of a spawned dispatch
FanOutcomes ==
    { [st |-> "RESPONDED_OK", status |-> 200],
      [st |-> "RESPONDED_OK", status |-> 500],
      [st |-> "TRANSPORT_ERR", status |-> 0] }

FanInit ==
    /\ fo_route \in FanRoutes
    /\ fo_defaults \in FanDefaults
    /\ fo_params \in FanParams
    /\ fo_pc = "idle"
    /\ fo_tasks = << >>
    /\ fo_spawned = << >>
    /\ fo_primary_handle = None
    /\ fo_resp = None
    /\ fo_forwarded = 0
    /\ fo_failed = 0
    /\ RouterOff
    /\ ProxyIdle
    /\ ReloadOff
    /\ ResolverOff
    /\ ServerOff
    /\ HeadersOff
    /\ SubstOff
    /\ ActuatorOff

\* forward_handler counts and answers what fan_out returned
FanEmit(out) ==
    /\ fo_resp' = Some(out.response)
    /\ fo_forwarded' = fo_forwarded + (IF out.counter = "forwarded" THEN 1 ELSE 0)
    /\ fo_failed' = fo_failed + (IF out.counter = "failed" THEN 1 ELSE 0)
    /\ fo_pc' = "done"

\* fan_out up to `handle.await`: primary_idx, then the loop over the targets,
\* which stores the handle of the target at primary_idx and lets the others
\* run on their own; without a stored handle primary_response is None at once
FanSpawn ==
    /\ fo_pc = "idle"
    /\ \E sorted_entries \in SortedEntries(fo_params) :
          LET ts == SpawnTasks(fo_route, fo_defaults, fo_params, sorted_entries)
              pidx == primary_idx(fo_route.targets)
          IN  /\ fo_tasks' = ts
              /\ fo_spawned' = SpawnOrder(ts, 0)
              /\ IF ts[pidx].st = "SKIPPED"
                 THEN /\ fo_primary_handle' = None
                      /\ FanEmit(Respond(None))
                 ELSE /\ fo_primary_handle' = Some(pidx)
                      /\ fo_pc' = "awaiting"
                      /\ UNCHANGED <<fo_resp, fo_forwarded, fo_failed>>
    /\ UNCHANGED <<fo_route, fo_defaults, fo_params, rvars, pvars, cvars, lvars, svars, hvars, uvars, avars>>

\* a spawned dispatch runs to its end
FanTaskEnds(idx) ==
    /\ fo_pc \in {"awaiting", "done"}
    /\ idx \in DOMAIN fo_tasks
    /\ fo_tasks[idx].st = "PENDING"
    /\ \E o \in FanOutcomes :
          fo_tasks' = [fo_tasks EXCEPT ![idx].st = o.st, ![idx].status = o.status]
    /\ UNCHANGED <<fo_route, fo_defaults, fo_params, fo_pc, fo_spawned, fo_primary_handle, fo_resp, fo_forwarded, fo_failed, rvars, pvars, cvars, lvars, svars, hvars, uvars, avars>>

\* `handle.await` on the stored handle completes and forward_handler answers
FanJoin ==
    /\ fo_pc = "awaiting"
    /\ primary_handle_ready(fo_tasks, Unwrap(fo_primary_handle))
    /\ FanEmit(Respond(response_data(fo_tasks, awaited_handle(fo_tasks, Unwrap(fo_primary_handle)))))
    /\ UNCHANGED <<fo_route, fo_defaults, fo_params, fo_tasks, fo_spawned, fo_primary_handle, rvars, pvars, cvars, lvars, svars, hvars, uvars, avars>>

FanNext ==
    \/ FanSpawn
    \/ \E idx \in 0..(MaxTargets - 1) : FanTaskEnds(idx)
    \/ FanJoin

SpecFan == FanInit /\ [][FanNext]_vars

(***************************************************************************)
(* The actuator: startup overrides, guards, handlers and reloads           *)
(* (src/cmd/run.rs, src/actuator/mod.rs, src/actuator/health.rs).          *)
(***************************************************************************)
ActuatorAuth(username, password) == [username |-> username, password |-> password]
ActuatorConfig(enabled, auth) == [enabled |-> enabled, auth |-> auth]

\* the auth sections validate accepts: both fields or neither
AcAuths == { ActuatorAuth(None, None), ActuatorAuth(Some("admin"), Some("secret")) }

\* the environment of the process: both variables set, or neither
AcEnvs == { ActuatorAuth(None, None), ActuatorAuth(Some("admin"), Some("secret")) }

\* the Authorization headers of the requests: none, Basic with the decoded
\* text admin:secret, admin:wrong or admin, and another scheme
AcHeaders ==
    { None,
      Some([scheme |-> "Basic", decoded |-> <<"admin", ":", "secret">>]),
      Some([scheme |-> "Basic", decoded |-> <<"admin", ":", "wrong">>]),
      Some([scheme |-> "Bearer", decoded |-> <<"admin">>]) }

AcTasks == {1, 2}

\* /actuator/health reads state.config in build_readiness, /actuator/info
\* does not read it
AcEndpoints == {"health", "info"}
reads_config(endpoint) == endpoint = "health"

AcIdle ==
    [pc |-> "idle", kind |-> "none", endpoint |-> "none", authorization |-> None,
     held |-> 0, status |-> 0]

\* execute: the env var overrides for actuator auth
env_overrides(actuator, env) ==
    [actuator EXCEPT
        !.auth.username = IF IsSome(env.username) THEN env.username ELSE @,
        !.auth.password = IF IsSome(env.password) THEN env.password ELSE @]

\* decoded.split_once(':')
RECURSIVE SplitOnce(_, _)
SplitOnce(seen, rest) ==
    IF rest = << >> THEN None
    ELSE IF Head(rest) = ":" THEN Some([user |-> seen, pass |-> Tail(rest)])
    ELSE SplitOnce(seen \o <<Head(rest)>>, Tail(rest))
split_once(decoded) == SplitOnce(<< >>, decoded)

\* basic_auth_guard after drop(config): the header is there, has the prefix
\* "Basic ", decodes, splits at a colon and carries the expected pair
authorized(authorization, expected_user, expected_pass) ==
    /\ IsSome(authorization)
    /\ Unwrap(authorization).scheme = "Basic"
    /\ IsSome(split_once(Unwrap(authorization).decoded))
    /\ Unwrap(split_once(Unwrap(authorization).decoded)).user = <<expected_user>>
    /\ Unwrap(split_once(Unwrap(authorization).decoded)).pass = <<expected_pass>>

\* basic_auth_guard: the arm `_ => return next.run(request).await` is taken,
\* with the guard `config` alive until the function returns
passes_with_guard(auth) == ~(IsSome(auth.username) /\ IsSome(auth.password))

\* state.config.read().await completes: no write is held or queued before it
ac_read_granted == ac_fpc /= "write"

ActuatorInit ==
    /\ ac_env \in AcEnvs
    /\ \E enabled \in BOOLEAN, auth \in AcAuths :
          ac_src = [actuator |-> ActuatorConfig(enabled, auth), rev |-> 0]
    /\ ac_cell = [actuator |-> env_overrides(ac_src.actuator, ac_env), version |-> ac_src]
    /\ ac_start = ac_cell.actuator
    /\ ac_removed = FALSE
    /\ ac_readers = 0
    /\ ac_fpc = "idle"
    /\ ac_loaded = None
    /\ ac_edits = 0
    /\ ac_rq = [t \in AcTasks |-> AcIdle]
    /\ RouterOff
    /\ ProxyIdle
    /\ ReloadOff
    /\ ResolverOff
    /\ ServerOff
    /\ HeadersOff
    /\ SubstOff
    /\ FanOff

\* the operator edits the payload: its content changes and its auth section is
\* kept or replaced
AcEdit ==
    /\ ac_edits < MaxEdits
    /\ \E auth \in AcAuths :
          /\ ac_src' = [actuator |-> [ac_src.actuator EXCEPT !.auth = auth],
                        rev |-> ac_src.rev + 1]
          /\ ac_removed' = (ac_removed \/ (~passes_with_guard(ac_src.actuator.auth)
                                            /\ passes_with_guard(auth)))
    /\ ac_edits' = ac_edits + 1
    /\ UNCHANGED <<ac_env, ac_cell, ac_start, ac_readers, ac_fpc, ac_loaded, ac_rq, rvars, pvars, cvars, lvars, svars, hvars, uvars, fovars>>

\* config_refresh_loop: has_changed says the payload is not the live version,
\* load_with_fallback returns it and the loop asks for the write lock
AcReload ==
    /\ ac_fpc = "idle"
    /\ ac_cell.version /= ac_src
    /\ ac_loaded' = Some(ac_src)
    /\ ac_fpc' = "write"
    /\ UNCHANGED <<ac_env, ac_src, ac_cell, ac_start, ac_removed, ac_readers, ac_edits, ac_rq, rvars, pvars, cvars, lvars, svars, hvars, uvars, fovars>>

\* state.config.write().await is granted: loaded.config = Arc::new(config),
\* loaded.version = version, drop(loaded)
AcWrite ==
    /\ ac_fpc = "write"
    /\ ac_readers = 0
    /\ ac_cell' = [actuator |-> Unwrap(ac_loaded).actuator, version |-> Unwrap(ac_loaded)]
    /\ ac_loaded' = None
    /\ ac_fpc' = "idle"
    /\ UNCHANGED <<ac_env, ac_src, ac_start, ac_removed, ac_readers, ac_edits, ac_rq, rvars, pvars, cvars, lvars, svars, hvars, uvars, fovars>>

\* a request arrives: for the proxy fallback, for /health or for the actuator
AcArrive(t) ==
    /\ ac_rq[t].pc \in {"idle", "done"}
    /\ \/ \E kind \in {"proxy", "health"} :
             ac_rq' = [ac_rq EXCEPT ![t] = [AcIdle EXCEPT !.pc = "read", !.kind = kind]]
       \/ \E endpoint \in AcEndpoints, authorization \in AcHeaders :
             ac_rq' = [ac_rq EXCEPT ![t] =
                          [AcIdle EXCEPT !.pc = "enabled_guard", !.kind = "actuator",
                                         !.endpoint = endpoint,
                                         !.authorization = authorization]]
    /\ UNCHANGED <<ac_env, ac_src, ac_cell, ac_start, ac_removed, ac_readers, ac_fpc, ac_loaded, ac_edits, rvars, pvars, cvars, lvars, svars, hvars, uvars, fovars>>

\* forward_handler and health_handler: the read guard is taken in a block
AcPlainRead(t) ==
    /\ ac_rq[t].pc = "read"
    /\ ac_read_granted
    /\ ac_readers' = ac_readers + 1
    /\ ac_rq' = [ac_rq EXCEPT ![t].pc = "holding", ![t].held = 1]
    /\ UNCHANGED <<ac_env, ac_src, ac_cell, ac_start, ac_removed, ac_fpc, ac_loaded, ac_edits, rvars, pvars, cvars, lvars, svars, hvars, uvars, fovars>>

\* the block ends, the guard is dropped, the handler goes on and answers
AcPlainRelease(t) ==
    /\ ac_rq[t].pc = "holding"
    /\ ac_readers' = ac_readers - 1
    /\ ac_rq' = [ac_rq EXCEPT ![t].pc = "done", ![t].held = 0, ![t].status = 200]
    /\ UNCHANGED <<ac_env, ac_src, ac_cell, ac_start, ac_removed, ac_fpc, ac_loaded, ac_edits, rvars, pvars, cvars, lvars, svars, hvars, uvars, fovars>>

\* actuator_enabled_guard: the guard is a temporary of the statement that
\* reads `enabled`
AcEnabledGuard(t) ==
    /\ ac_rq[t].pc = "enabled_guard"
    /\ ac_read_granted
    /\ IF ac_cell.actuator.enabled
       THEN ac_rq' = [ac_rq EXCEPT ![t].pc = "auth_guard"]
       ELSE ac_rq' = [ac_rq EXCEPT ![t].pc = "done", ![t].status = 404]
    /\ UNCHANGED <<ac_env, ac_src, ac_cell, ac_start, ac_removed, ac_readers, ac_fpc, ac_loaded, ac_edits, rvars, pvars, cvars, lvars, svars, hvars, uvars, fovars>>

\* basic_auth_guard up to next.run(request) or the 401
AcBasicAuthGuard(t) ==
    /\ ac_rq[t].pc = "auth_guard"
    /\ ac_read_granted
    /\ LET auth == ac_cell.actuator.auth
       IN  IF passes_with_guard(auth)
           THEN /\ ac_readers' = ac_readers + 1
                /\ ac_rq' = [ac_rq EXCEPT ![t].pc = "handler", ![t].held = 1]
           ELSE /\ ac_readers' = ac_readers
                /\ IF authorized(ac_rq[t].authorization,
                                 Unwrap(auth.username), Unwrap(auth.password))
                   THEN ac_rq' = [ac_rq EXCEPT ![t].pc = "handler"]
                   ELSE ac_rq' = [ac_rq EXCEPT ![t].pc = "done", ![t].status = 401]
    /\ UNCHANGED <<ac_env, ac_src, ac_cell, ac_start, ac_removed, ac_fpc, ac_loaded, ac_edits, rvars, pvars, cvars, lvars, svars, hvars, uvars, fovars>>

\* build_readiness: state.config.read().await is granted
AcHandlerRead(t) ==
    /\ ac_rq[t].pc = "handler"
    /\ reads_config(ac_rq[t].endpoint)
    /\ ac_read_granted
    /\ ac_readers' = ac_readers + 1
    /\ ac_rq' = [ac_rq EXCEPT ![t].pc = "handler_holding", ![t].held = @ + 1]
    /\ UNCHANGED <<ac_env, ac_src, ac_cell, ac_start, ac_removed, ac_fpc, ac_loaded, ac_edits, rvars, pvars, cvars, lvars, svars, hvars, uvars, fovars>>

\* the handler returns its response and basic_auth_guard returns: the guards
\* the task holds go out of scope
AcHandlerReturns(t) ==
    /\ \/ ac_rq[t].pc = "handler_holding"
       \/ ac_rq[t].pc = "handler" /\ ~reads_config(ac_rq[t].endpoint)
    /\ ac_readers' = ac_readers - ac_rq[t].held
    /\ ac_rq' = [ac_rq EXCEPT ![t].pc = "done", ![t].held = 0, ![t].status = 200]
    /\ UNCHANGED <<ac_env, ac_src, ac_cell, ac_start, ac_removed, ac_fpc, ac_loaded, ac_edits, rvars, pvars, cvars, lvars, svars, hvars, uvars, fovars>>

\* the steps of the refresh loop and of the requests under way
AcProgress ==
    \/ AcWrite
    \/ \E t \in AcTasks : AcPlainRead(t)
    \/ \E t \in AcTasks : AcPlainRelease(t)
    \/ \E t \in AcTasks : AcEnabledGuard(t)
    \/ \E t \in AcTasks : AcBasicAuthGuard(t)
    \/ \E t \in AcTasks : AcHandlerRead(t)
    \/ \E t \in AcTasks : AcHandlerReturns(t)

ActuatorNext ==
    \/ AcEdit
    \/ AcReload
    \/ AcWrite
    \/ \E t \in AcTasks : AcArrive(t)
    \/ \E t \in AcTasks : AcPlainRead(t)
    \/ \E t \in AcTasks : AcPlainRelease(t)
    \/ \E t \in AcTasks : AcEnabledGuard(t)
    \/ \E t \in AcTasks : AcBasicAuthGuard(t)
    \/ \E t \in AcTasks : AcHandlerRead(t)
    \/ \E t \in AcTasks : AcHandlerReturns(t)

SpecActuator == ActuatorInit /\ [][ActuatorNext]_vars

(***************************************************************************)
(* Startup and reloads on payloads that break the rules of validate        *)
(* (src/config/validation.rs, src/config/sources/file_source.rs,           *)
(* src/cmd/run.rs).                                                        *)
(***************************************************************************)
\* payloads that parse: A and G pass validate; N has a route without targets,
\* D two routes of one path, P two primaries, M an unknown method, U a target
\* URL without scheme, Q a path without leading slash
StartupContents == {"A", "G", "N", "D", "P", "M", "U", "Q"}
EditedContents == {"A", "G", "N", "D", "P", "M"}
FallbackPayloads == {"F", "P"}

ValidInit ==
    /\ \E sources \in [primary : StartupContents, fallback : FallbackPayloads \cup {NoFallback}] :
          /\ load_with_fallback(sources).ok
          /\ Started(sources)
    /\ fpc = "select"
    /\ RouterOff
    /\ ProxyIdle
    /\ ExtrasOff

\* the operator replaces the payload of the primary or of the fallback source
EditPayloads ==
    /\ edits < MaxEdits
    /\ \/ \E payload \in EditedContents \ {src.primary} :
             src' = [src EXCEPT !.primary = payload]
       \/ /\ src.fallback /= NoFallback
          /\ \E payload \in FallbackPayloads \ {src.fallback} :
                src' = [src EXCEPT !.fallback = payload]
    /\ edits' = edits + 1
    /\ hist' = [hist EXCEPT !.dirty = TRUE, !.stable = 0]
    /\ UNCHANGED <<cell, lock, fpc, flocal, reloads, shutdown, tick, rd, rvars, pvars, evars>>

ValidNext ==
    \/ EditPayloads
    \/ TimerFires
    \/ SelectTick
    \/ ReadVersion
    \/ HasChanged
    \/ LoadPrimary
    \/ LoadFallback
    \/ WriteConfig
    \/ WriteVersion
    \/ WriteLoadedAt
    \/ CountReload

SpecValid == ValidInit /\ [][ValidNext]_vars

(***************************************************************************)
(* Properties of the route matcher.                                        *)
(***************************************************************************)
Matched == rpc /= "init"
Selected == routes[Unwrap(result).idx + 1]

\* C7: match_route returns a qualifying route of maximum specificity score
\* (catch-all 0, prefix wildcard 10 per prefix segment, literal segment 10,
\* parameter segment 5), the first declared among those of maximum score, and
\* returns no match iff no route qualifies.
C7_MaxScoreFirstDeclared ==
    Matched =>
        LET score == [i \in 1..Len(routes) |-> RuleScore(routes[i], path, method)]
        IN  /\ result = None <=> \A i \in 1..Len(routes) : score[i] < 0
            /\ IsSome(result) =>
                  LET k == Unwrap(result).idx + 1
                  IN  /\ k \in 1..Len(routes)
                      /\ score[k] >= 0
                      /\ \A j \in 1..Len(routes) : score[j] <= score[k]
                      /\ \A j \in 1..(k - 1) : score[j] < score[k]

\* two routes tie at the maximum score and the first declared one is returned
C7_Witness ==
    /\ Matched
    /\ IsSome(result)
    /\ Unwrap(result).idx = 0
    /\ Len(routes) = 2
    /\ RuleScore(routes[1], path, method) = 10
    /\ RuleScore(routes[2], path, method) = 10

IsLiteral(r) ==
    /\ ~IsCatchAll(r)
    /\ ~IsPrefixWildcard(r)
    /\ \A i \in 1..Len(Segments(r.path)) : ~IsParamSeg(Segments(r.path)[i])

\* the literal routes of the table whose segments are the request's segments
ExactRoutes ==
    { i \in 1..Len(routes) :
        /\ IsLiteral(routes[i])
        /\ Segments(routes[i].path) = Segments(path)
        /\ AcceptsMethod(routes[i], method) }

CatchAllRoutes ==
    { i \in 1..Len(routes) : IsCatchAll(routes[i]) /\ AcceptsMethod(routes[i], method) }

\* C8 as claimed: with a catch-all and an exact literal route in the table,
\* match_route selects the literal route, the route `/` for the request `/`
\* included, whichever of the two is declared first.
C8_ExactBeatsCatchAll ==
    (Matched /\ ExactRoutes /= {} /\ CatchAllRoutes /= {}) =>
        /\ IsSome(result)
        /\ Unwrap(result).idx + 1 \in ExactRoutes

\* C8 as amended: for a request of at least one segment the catch-all is never
\* selected, and the literal route is selected unless a prefix-wildcard route
\* with the same segments (equal score) is declared before it; for the request
\* `/` the route `/` and the catch-all tie at 0 and the first declared of the
\* qualifying routes is selected.
C8_ExactBeatsCatchAllAmended ==
    (Matched /\ ExactRoutes /= {} /\ CatchAllRoutes /= {}) =>
        /\ IsSome(result)
        /\ LET k == Unwrap(result).idx + 1
               n == Len(Segments(path))
           IN  /\ n >= 1 =>
                     /\ k \notin CatchAllRoutes
                     /\ \/ k \in ExactRoutes
                        \/ /\ IsPrefixWildcard(routes[k])
                           /\ PrefixSegs(routes[k]) = Segments(path)
                           /\ \A j \in ExactRoutes : k < j
               /\ n = 0 =>
                     /\ k \in ExactRoutes \cup CatchAllRoutes
                     /\ \A j \in ExactRoutes \cup CatchAllRoutes : k <= j

\* the catch-all is declared first and the literal route `/a` is selected
C8_Witness ==
    /\ Matched
    /\ Len(routes) = 2
    /\ IsCatchAll(routes[1])
    /\ ExactRoutes = {2}
    /\ Len(Segments(path)) = 1
    /\ IsSome(result)
    /\ Unwrap(result).idx = 1

\* C9: inserting, at any position, a route whose score for the request is
\* strictly lower than the score of the selected route (a route that does not
\* qualify counts as lower) changes neither the route selected, by identity,
\* nor the captured parameters.
C9_InsertLowerKeepsMatch ==
    (rpc = "inserted" /\ IsSome(Unwrap(before).result)) =>
        LET old == Unwrap(before)
            k == Unwrap(old.result).idx + 1
            new == routes[inserted_at]
        IN  RuleScore(new, path, method) < RuleScore(old.routes[k], path, method) =>
               /\ IsSome(result)
               /\ Unwrap(result).idx + 1 = (IF inserted_at <= k THEN k + 1 ELSE k)
               /\ Selected = old.routes[k]
               /\ Unwrap(result).params = Unwrap(old.result).params

\* a qualifying route of lower score was inserted before the selected route,
\* which captured a parameter
C9_Witness ==
    /\ rpc = "inserted"
    /\ IsSome(Unwrap(before).result)
    /\ inserted_at = 1
    /\ RuleScore(routes[1], path, method) >= 0
    /\ RuleScore(routes[1], path, method) < RuleScore(Selected, path, method)
    /\ Unwrap(result).params /= EmptyMap

ParamPositions(rs) == { i \in 1..Len(rs) : IsParamSeg(rs[i]) }

\* C10 as claimed: for a selected non-wildcard route the parameter map holds
\* exactly one entry per `:name` segment, mapping the name to the request
\* segment at the same position, and nothing else; wildcard matches return an
\* empty map.
C10_ParamsPerSegment ==
    (Matched /\ IsSome(result)) =>
        LET params == Unwrap(result).params
            rs == Segments(Selected.path)
            q == Segments(path)
        IN  IF IsCatchAll(Selected) \/ IsPrefixWildcard(Selected)
            THEN params = EmptyMap
            ELSE /\ DOMAIN params = { Tail(rs[i]) : i \in ParamPositions(rs) }
                 /\ Cardinality(DOMAIN params) = Cardinality(ParamPositions(rs))
                 /\ \A i \in ParamPositions(rs) : params[Tail(rs[i])] = q[i]

\* C10 as amended: the map holds one entry per distinct parameter name of the
\* route and nothing else; a name maps to the request segment at the position
\* of the last segment bearing that name; wildcard matches return an empty map.
C10_ParamsPerName ==
    (Matched /\ IsSome(result)) =>
        LET params == Unwrap(result).params
            rs == Segments(Selected.path)
            q == Segments(path)
        IN  IF IsCatchAll(Selected) \/ IsPrefixWildcard(Selected)
            THEN params = EmptyMap
            ELSE /\ DOMAIN params = { Tail(rs[i]) : i \in ParamPositions(rs) }
                 /\ \A i \in ParamPositions(rs) :
                        (\A j \in ParamPositions(rs) : rs[j] = rs[i] => j <= i)
                            => params[Tail(rs[i])] = q[i]

\* a route with the parameter name x in two segments is selected for a request
\* whose two segments differ
C10_Witness ==
    /\ Matched
    /\ IsSome(result)
    /\ Selected.path = <<"/", ":", "x", "/", ":", "x">>
    /\ Segments(path) = << <<"a">>, <<"b">> >>
    /\ Unwrap(result).params = (<<"x">> :> <<"b">>)

\* whether two routes are restricted to different methods: neither accepts
\* every method and no method of one equals, ignoring case, a method of the other
DifferentMethods(r1, r2) ==
    \A i \in 1..Len(r1.methods), j \in 1..Len(r2.methods) :
        /\ r1.methods[i] /= "*"
        /\ r2.methods[j] /= "*"
        /\ AsciiUpper(r1.methods[i]) /= AsciiUpper(r2.methods[j])

\* C11: the selected route's methods list contains `*` or the request method
\* compared ignoring case; in a table of routes on the request's path that are
\* restricted to pairwise different methods, a request selects the one route
\* whose methods contain its method, and no route when none does.
C11_MethodFilter ==
    Matched =>
        /\ IsSome(result) => AcceptsMethod(Selected, method)
        /\ (/\ \A i \in 1..Len(routes) : routes[i].path = path
            /\ \A i, j \in 1..Len(routes) :
                  i /= j => DifferentMethods(routes[i], routes[j]))
           => /\ \A i \in 1..Len(routes) :
                    AcceptsMethod(routes[i], method)
                        => result = Some([idx |-> i - 1, params |-> EmptyMap])
              /\ (\A i \in 1..Len(routes) : ~AcceptsMethod(routes[i], method))
                    => result = None

\* two routes on /a, for GET and for post: a POST request selects the second
C11_Witness ==
    /\ Matched
    /\ routes = << Rt(<<"/", "a">>, <<"GET">>), Rt(<<"/", "a">>, <<"post">>) >>
    /\ method = "POST"
    /\ result = Some([idx |-> 1, params |-> EmptyMap])

(***************************************************************************)
(* Properties of the live config cell and the refresh loop.                *)
(***************************************************************************)
HealthReaders == { r \in Readers : rd[r].pc = "holding" /\ rd[r].kind = "health" }

\* C12: what a reader copies under one acquisition of the read lock was
\* installed by a single write: config, version and loaded_at stem from the
\* same write and the (config, version) pair is one that was installed.
C12_NoTornRead ==
    \A r \in HealthReaders :
        LET seen == Unwrap(rd[r].snap)
        IN  /\ seen.config_w = seen.loaded_at
            /\ seen.version_w = seen.loaded_at
            /\ Installed(seen) \in hist.installed

\* a reader holds the LoadedConfig of a reload while the next reload waits for
\* the write lock
C12_Witness ==
    \E r \in HealthReaders :
        /\ Unwrap(rd[r].snap).loaded_at >= 1
        /\ fpc = "write"

InFlight == { r \in Readers : rd[r].pc = "dispatched" }

\* C13: the route matched, the target list and the timeouts of a request all
\* come from the Config it cloned under the read lock, whatever the cell holds
\* by the time the request is dispatched.
C13_SnapshotIsolation ==
    \A r \in InFlight :
        LET snapshot == Unwrap(rd[r].snap).config
            found == match_route(snapshot.routes, rd[r].path, "GET")
            route == snapshot.routes[Unwrap(found).idx + 1]
        IN  /\ rd[r].matched = found
            /\ Unwrap(rd[r].used).targets = route.targets
            /\ \A i \in 1..Len(route.targets) :
                  Unwrap(rd[r].used).timeouts[i] =
                      (IF IsSome(route.targets[i].timeout) THEN Unwrap(route.targets[i].timeout)
                       ELSE IF IsSome(route.timeout) THEN Unwrap(route.timeout)
                       ELSE snapshot.defaults.timeout)

\* a request in flight was dispatched to the targets of its snapshot while the
\* cell holds another config
C13_Witness ==
    \E r \in InFlight :
        /\ cell.config /= Unwrap(rd[r].snap).config
        /\ Unwrap(rd[r].used).targets =
              Unwrap(rd[r].snap).config.routes[Unwrap(rd[r].matched).idx + 1].targets
        /\ reloads >= 1

LoadFails ==
    \/ fpc = "load_primary" /\ ~load(src.primary).ok /\ src.fallback = NoFallback
    \/ fpc = "load_fallback" /\ ~load(src.fallback).ok

\* C14: the step in which load_with_fallback fails leaves the cell (config,
\* version, source_name, loaded_at) and config.reloads unchanged, the loop goes
\* back to its select and readers are still granted the cell; no step of a tick
\* before the write touches the cell or the counter.
C14_FailedReloadKeepsConfig ==
    [][/\ (LoadFails /\ fpc' /= fpc) =>
              /\ cell' = cell
              /\ reloads' = reloads
              /\ fpc' = "select"
              /\ ~lock'.writer
       /\ fpc \in {"read_version", "has_changed", "load_primary", "load_fallback"} =>
              cell' = cell /\ reloads' = reloads
      ]_vars

\* a tick ended in a failed reload and the startup config is still installed
C14_Witness ==
    /\ hist.outcome = "load_err"
    /\ fpc = "select"
    /\ reloads = 0
    /\ hist.installed = {Installed(cell)}
    /\ cell.loaded_at = 0

Unchanged(changed) == ~changed.ok \/ ~changed.val

\* C15: when has_changed on the primary answers false or fails, the tick ends
\* there: no load, no write of the cell, config.reloads unchanged; has_changed
\* is never called on another source than the primary.
C15_NoChangeNoLoad ==
    /\ [](hist.probed \subseteq {"primary"})
    /\ [][(/\ fpc = "has_changed"
           /\ fpc' /= fpc
           /\ Unchanged(has_changed(src.primary, Unwrap(flocal.current_version))))
          => /\ fpc' = "select"
             /\ cell' = cell
             /\ reloads' = reloads
             /\ flocal'.loaded = None
         ]_vars

\* has_changed failed on an unreadable primary and nothing was reloaded
C15_Witness ==
    /\ hist.outcome = "check_err"
    /\ hist.probed = {"primary"}
    /\ src.primary = MISSING
    /\ fpc = "select"
    /\ reloads = 0

\* C16: every successful reload adds 1 to config.reloads, and right after the
\* swap (the payloads not having changed during the tick) has_changed of the
\* primary on the live version is false, whichever source served the reload.
C16_LiveVersionIsPrimaryHash ==
    /\ [][(fpc = "count" /\ fpc' /= fpc) => reloads' = reloads + 1]_vars
    /\ [][(fpc = "write_loaded_at" /\ fpc' = "count" /\ ~hist.dirty)
          => LET changed == has_changed(src'.primary, cell'.version)
             IN  changed.ok /\ ~changed.val
         ]_vars

\* C17: a tick that follows a completed tick, the payloads of both sources
\* unchanged since before the first of the two, writes nothing to the cell.
C17_SecondTickIdle ==
    (hist.stable >= 2 /\ fpc = "select") => hist.outcome /= "reloaded"

\* C18: of the LoadedConfig values installed, the startup value included, two
\* of equal version have equal content.
C18_VersionIdentifiesContent ==
    \A a, b \in hist.installed : a.version = b.version => a.config = b.config

Holds(payload) ==
    /\ cell.version = ConfigVersion(sha256_hex(payload))
    /\ cell.config = deserialize(payload).val
    /\ ~lock.writer

\* C19: when the primary holds a valid payload whose hash is not the live
\* version, then the cell eventually holds that payload's config with its hash
\* as version (and a request for /b, which payload B alone routes, matches),
\* unless the payload changes again, shutdown is signalled or the reloads
\* followed are used up.
C19_ChangeIsEventuallyLive ==
    \A payload \in {"A", "B"} :
        (src.primary = payload /\ cell.version /= ConfigVersion(sha256_hex(payload)))
            ~> \/ /\ Holds(payload)
                  /\ payload = "B" =>
                        IsSome(match_route(cell.config.routes, <<"/", "b">>, "GET"))
               \/ src.primary /= payload
               \/ shutdown
               \/ reloads >= MaxReloads

\* the proxy started on payload A, which has no route for /b, and now serves
\* payload B
C19_Witness ==
    /\ Holds("B")
    /\ src.primary = "B"
    /\ \E first \in hist.installed :
          /\ first.version = ConfigVersion(sha256_hex("A"))
          /\ ~IsSome(match_route(first.config.routes, <<"/", "b">>, "GET"))
    /\ IsSome(match_route(cell.config.routes, <<"/", "b">>, "GET"))
    /\ ~shutdown

\* C20: once shutdown was signalled, the loop leaves its select only to exit,
\* also when a tick is ready.
C20_ShutdownWinsSelect ==
    [][(shutdown /\ fpc = "select" /\ fpc' /= fpc) => fpc' = "exited"]_vars

(***************************************************************************)
(* Properties of the fan-out engine and the forwarding handler.            *)
(***************************************************************************)
Routed(r) == hpc[r] /= "idle" /\ IsSome(matched[r])
Served(r) == hpc[r] = "done"
PrimaryTask(r) == tasks[r][PrimaryOf(r)]
Secondaries(r) == DOMAIN tasks[r] \ {PrimaryOf(r)}
Running == {"PENDING", "IN_FLIGHT", "READING_BODY"}

\* C1: once the primary dispatch is in a terminal state, fan_out can return and
\* the response can be emitted, whatever state the secondary dispatches are in.
C1_PrimaryAloneReleasesCaller ==
    \A r \in Requests :
        (hpc[r] = "awaiting" /\ PrimaryTask(r).st \in TerminalStates)
            => ENABLED PrimaryJoin(r)

\* the response was emitted after the primary completed while a secondary
\* dispatch was still running
C1_Witness ==
    \E r \in Requests :
        /\ Served(r)
        /\ observed[r] = 1
        /\ \E idx \in Secondaries(r) : tasks[r][idx].st \in Running

\* every way the secondary dispatches of a request could have gone, the primary
\* dispatch being as it is
TaskOutcomes(t) ==
    { [t EXCEPT !.st = st, !.status = status, !.late = late] :
        st \in TerminalStates \cup Running \cup {"SKIPPED"},
        status \in UpstreamStatuses \cup {0},
        late \in BOOLEAN }

RECURSIVE Variants(_, _)
Variants(ts, idxs) ==
    IF idxs = {} THEN {ts}
    ELSE LET i == CHOOSE i \in idxs : TRUE
         IN  UNION { { [alt EXCEPT ![i] = o] : o \in TaskOutcomes(ts[i]) } :
                     alt \in Variants(ts, idxs \ {i}) }

SecondaryVariants(r) == Variants(tasks[r], Secondaries(r))

\* C2: the response and the changes of the forwarded and failed counters are the
\* same for every outcome of the secondary dispatches: the step that emits the
\* response of a routed request yields what it would yield with the secondaries
\* in any other state, and a step of a secondary dispatch changes neither a
\* response, nor a counter, nor the primary dispatch.
C2_SecondariesDoNotInterfere ==
    [][\A r \in Requests :
          /\ (hpc[r] = "awaiting" /\ hpc'[r] = "done") =>
                \A alt \in SecondaryVariants(r) :
                    LET out == Respond(response_data(alt, awaited_handle(alt, PrimaryOf(r))))
                    IN  /\ primary_handle_ready(alt, PrimaryOf(r))
                        /\ response'[r] = Some(out.response)
                        /\ forwarded' - forwarded = (IF out.counter = "forwarded" THEN 1 ELSE 0)
                        /\ failed' - failed = (IF out.counter = "failed" THEN 1 ELSE 0)
          /\ (Routed(r) /\ \E idx \in Secondaries(r) : tasks'[r][idx] /= tasks[r][idx]) =>
                /\ UNCHANGED <<response, forwarded, failed, hpc>>
                /\ tasks'[r][PrimaryOf(r)] = tasks[r][PrimaryOf(r)]
      ]_vars

\* the primary answered 200 and the secondary 500: the caller sees 200 and the
\* failed counter is unchanged
C2_Witness ==
    \E r \in Requests :
        /\ Served(r) /\ Routed(r)
        /\ PrimaryTask(r).st = "RESPONDED_OK" /\ PrimaryTask(r).status = 200
        /\ \E idx \in Secondaries(r) :
              tasks[r][idx].st = "RESPONDED_OK" /\ tasks[r][idx].status = 500
        /\ Unwrap(response[r]).status = 200
        /\ failed = 0
        /\ forwarded = 1

ServedOk == { r \in Requests : Served(r) /\ Routed(r) /\ PrimaryTask(r).st = "RESPONDED_OK" }
ServedBad == { r \in Requests : Served(r) /\ Routed(r) /\ PrimaryTask(r).st /= "RESPONDED_OK" }

\* C3: for a routed request, a primary dispatch that ended in a failure state
\* (or was never sent) gives 502 with no body and counts as failed; a primary
\* that ended in RESPONDED_OK gives its status and body and counts as forwarded.
\* No dispatch is started after the spawn loop and a finished dispatch is never
\* run again.
C3_PrimaryOutcomeDecidesResponse ==
    /\ [](/\ \A r \in ServedOk :
                response[r] = Some([status |-> PrimaryTask(r).status,
                                    body |-> Some(PrimaryOf(r))])
          /\ \A r \in ServedBad : response[r] = Some([status |-> 502, body |-> None])
          /\ forwarded = Cardinality(ServedOk)
          /\ failed = Cardinality(ServedBad))
    /\ [][\A r \in Requests :
            Routed(r) =>
               /\ spawned'[r] = spawned[r]
               /\ \A idx \in DOMAIN tasks[r] :
                     tasks[r][idx].st \in TerminalStates \cup {"SKIPPED"}
                        => tasks'[r][idx] = tasks[r][idx]
        ]_vars

\* a primary whose body read failed was answered with 502 and counted as failed
C3_Witness ==
    \E r \in Requests :
        /\ Served(r) /\ Routed(r)
        /\ PrimaryTask(r).st = "RESPONDED_BODY_ERR"
        /\ response[r] = Some([status |-> 502, body |-> None])
        /\ failed = 1

\* C4: the effective timeout bounds the whole dispatch, the body read included:
\* no dispatch ends in RESPONDED_OK after its timeout has elapsed.
C4_TimeoutBoundsWholeDispatch ==
    \A r \in Requests : \A idx \in DOMAIN tasks[r] :
        tasks[r][idx].st = "RESPONDED_OK" => ~tasks[r][idx].late

Count(seq, x) == Cardinality({ i \in 1..Len(seq) : seq[i] = x })

\* C5 as claimed: for every routed request exactly one primary dispatch is
\* started and exactly one terminal outcome of it is observed before the
\* response, whatever the captured parameters.
C5_ExactlyOnePrimary ==
    \A r \in Requests :
        (Served(r) /\ Routed(r)) =>
            /\ Count(spawned[r], PrimaryOf(r)) = 1
            /\ observed[r] = 1

\* C5 as amended: at most one primary dispatch is started and at most one
\* outcome of it observed; exactly one of each before the response when the
\* primary's resolved URL parses; when it does not parse no primary dispatch is
\* started, none is observed and the response is 502.
C5_OnePrimaryIfUrlParses ==
    \A r \in Requests :
        Routed(r) =>
            /\ Count(spawned[r], PrimaryOf(r)) <= 1
            /\ observed[r] <= Count(spawned[r], PrimaryOf(r))
            /\ Served(r) =>
                  IF UrlParses(PrimaryTask(r).url)
                  THEN Count(spawned[r], PrimaryOf(r)) = 1 /\ observed[r] = 1
                  ELSE /\ Count(spawned[r], PrimaryOf(r)) = 0
                       /\ observed[r] = 0
                       /\ response[r] = Some([status |-> 502, body |-> None])

\* the captured parameter makes the primary's URL unparsable: only the
\* secondary was dispatched and the caller got 502
C5_Witness ==
    \E r \in Requests :
        /\ Served(r) /\ Routed(r)
        /\ ~UrlParses(PrimaryTask(r).url)
        /\ spawned[r] = <<0>>
        /\ PrimaryOf(r) = 1
        /\ Unwrap(response[r]).status = 502

\* C6: requests_forwarded + requests_failed grows by exactly 1 with every
\* response emitted on the proxy path, a route miss included.
C6_EveryResponseCounted ==
    forwarded + failed = Cardinality({ r \in Requests : Served(r) })

(***************************************************************************)
(* Properties of the resolver.                                             *)
(***************************************************************************)
Returned == rs_pc = "returned"
SameResult(a, b) == a.ok = b.ok /\ a.val = b.val
HasFallback == rs_src.fallback /= NoFallback

\* C21: load_with_fallback returns the primary's result whenever
\* primary.load() succeeds and then never calls fallback.load();
\* fallback.load() is called only after primary.load() failed and a fallback
\* exists, and then its successful result (config and its own version hash)
\* is returned; with no fallback the primary error is returned.
C21_PrimaryFirstThenFallback ==
    /\ \A i \in 1..Len(rs_calls) :
          rs_calls[i] = "fallback.load" =>
             /\ i = 2
             /\ rs_calls[1] = "primary.load"
             /\ ~Unwrap(rs_primary).ok
             /\ HasFallback
    /\ Returned =>
          LET primary == Unwrap(rs_primary)
              ret == Unwrap(rs_ret)
          IN  /\ primary.ok =>
                    /\ SameResult(ret, primary)
                    /\ rs_calls = <<"primary.load">>
              /\ (~primary.ok /\ HasFallback) =>
                    /\ rs_calls = <<"primary.load", "fallback.load">>
                    /\ Unwrap(rs_fallback).ok =>
                          /\ SameResult(ret, Unwrap(rs_fallback))
                          /\ ret.val.version.Hash[2] \in FallbackContents
              /\ (~primary.ok /\ ~HasFallback) =>
                    /\ SameResult(ret, primary)
                    /\ rs_calls = <<"primary.load">>

C21_Witness ==
    /\ Returned
    /\ rs_calls = <<"primary.load", "fallback.load">>
    /\ Unwrap(rs_ret).ok
    /\ Unwrap(rs_ret).val.version = ConfigVersion(sha256_hex("F"))

\* C22: when both primary.load() and fallback.load() fail, load_with_fallback
\* returns the primary source's error, not the fallback's.
C22_BothFailPrimaryError ==
    (/\ Returned
     /\ ~Unwrap(rs_primary).ok
     /\ IsSome(rs_fallback)
     /\ ~Unwrap(rs_fallback).ok)
       => SameResult(Unwrap(rs_ret), Unwrap(rs_primary))

(***************************************************************************)
(* Properties of the router.                                               *)
(***************************************************************************)
\* C23: a request whose path is /health is never dispatched to any target,
\* whatever its method and whatever the installed config, a config with a
\* route whose path is /health or a catch-all included.
C23_HealthNeverForwarded ==
    sv_req.path = HealthPath =>
       /\ sv_handler /= "forward_handler"
       /\ sv_dispatched = {}

C23_Witness ==
    /\ sv_pc = "done"
    /\ sv_req.path = HealthPath
    /\ sv_req.method = "POST"
    /\ \E i \in 1..Len(sv_routes) :
          /\ sv_routes[i].path = HealthPath
          /\ IsSome(match_route(sv_routes, sv_req.path, sv_req.method))
    /\ \E i \in 1..Len(sv_routes) : IsCatchAll(sv_routes[i])

(***************************************************************************)
(* Properties of the headers.                                              *)
(***************************************************************************)
Answered == hd_pc = "done"
Dispatched == hd_pc \in {"awaiting", "done"} /\ hd_sent /= << >>

HdDefaults == hd_config.defaults
HdRoute == hd_config.routes[1]
Original == hd_request.headers
Out(i) == hd_sent[i].headers
Without(headers, names) == [n \in DOMAIN headers \ names |-> headers[n]]

\* the rules of a rule set that parse, and the names they touch
ValidAddKeys(rules) ==
    { k \in DOMAIN rules.add :
         IsSome(HeaderName_parse(k)) /\ IsSome(HeaderValue_from_str(rules.add[k])) }
AddedNames(rules) == { Unwrap(HeaderName_parse(k)) : k \in ValidAddKeys(rules) }
AddedValues(rules, name) ==
    { rules.add[k] : k \in { x \in ValidAddKeys(rules) : HeaderName_parse(x) = Some(name) } }
StrippedNames(rules) ==
    { Unwrap(HeaderName_parse(rules.strip[i])) :
         i \in { j \in 1..Len(rules.strip) : IsSome(HeaderName_parse(rules.strip[j])) } }
RuleNames ==
    AddedNames(HdDefaults.headers) \cup AddedNames(HdRoute.headers)
       \cup StrippedNames(HdDefaults.headers) \cup StrippedNames(HdRoute.headers)

\* C24: the correlation ID chosen by the handler is sent as X-Correlation-Id
\* to every dispatched target and returned as X-Correlation-Id in the
\* caller's response, for every outcome (success, 404, 502) and every setting
\* of proxy_headers.
C24_CorrelationIdEverywhere ==
    /\ Dispatched =>
          \A i \in 1..Len(hd_sent) : HeaderGet(Out(i), "x-correlation-id") = Some(hd_cid)
    /\ Answered =>
          /\ "x-correlation-id" \in DOMAIN Unwrap(hd_resp).headers
          /\ \E k \in 1..Len(Unwrap(hd_resp).headers["x-correlation-id"]) :
                Unwrap(hd_resp).headers["x-correlation-id"][k] = hd_cid

\* C25 as claimed: within one request every secondary dispatch carries the
\* primary dispatch's headers except for Host, and the same body bytes, also
\* when the targets differ in scheme.
C25_SecondariesSameButHost ==
    Dispatched =>
       \A i \in 1..Len(hd_sent) :
          /\ Without(Out(i), {"host"}) = Without(Out(1), {"host"})
          /\ hd_sent[i].body = hd_sent[1].body

\* C25, amended: within one request every secondary dispatch carries the
\* primary dispatch's headers except for Host and X-Forwarded-Proto (which
\* follows each target's scheme), and the same body bytes.
C25_SecondariesSameButHostAndProto ==
    Dispatched =>
       \A i \in 1..Len(hd_sent) :
          /\ Without(Out(i), {"host", "x-forwarded-proto"})
                = Without(Out(1), {"host", "x-forwarded-proto"})
          /\ hd_sent[i].body = hd_request.body

C25_Witness ==
    /\ Dispatched
    /\ Len(hd_sent) >= 2
    /\ HdDefaults.proxy_headers
    /\ HdDefaults.forward_headers
    /\ "host" \in DOMAIN Original
    /\ HeaderGet(Out(1), "x-forwarded-proto") = Some(<<"http">>)
    /\ HeaderGet(Out(2), "x-forwarded-proto") = Some(<<"https">>)
    /\ HeaderGet(Out(1), "host") /= HeaderGet(Out(2), "host")
    /\ HeaderGet(Out(2), "x-forwarded-host") = Some(Original["host"])

\* C26: the rules run in the order defaults add, route add, defaults strip,
\* route strip: for a name in both add maps the route's value is sent; a name
\* in either strip set is absent from the output even if an add rule or a
\* proxy header set it; a rule with an invalid name or value is skipped and
\* changes nothing else, the request being dispatched all the same.
C26_RuleOrder ==
    /\ hd_pc \in {"awaiting", "done"} /\ hd_sent = << >> =>
          Unwrap(hd_resp).status = 404
    /\ Dispatched =>
          /\ Len(hd_sent) = Len(HdRoute.targets)
          /\ \A i \in 1..Len(hd_sent) :
             LET stripped == StrippedNames(HdDefaults.headers)
                                \cup StrippedNames(HdRoute.headers)
             IN  /\ \A n \in stripped : n \notin DOMAIN Out(i)
                 /\ \A n \in AddedNames(HdRoute.headers) \ stripped :
                       /\ n \in DOMAIN Out(i)
                       /\ Out(i)[n] \in AddedValues(HdRoute.headers, n)
                 /\ \A n \in AddedNames(HdDefaults.headers)
                                \ (stripped \cup AddedNames(HdRoute.headers)) :
                       /\ n \in DOMAIN Out(i)
                       /\ Out(i)[n] \in AddedValues(HdDefaults.headers, n)
                 /\ \A n \in DOMAIN Out(i) :
                       /\ IsSome(HeaderName_parse(n))
                       /\ IsSome(HeaderValue_from_str(Out(i)[n]))
                 /\ LET valid(rules) ==
                           HeaderRules([k \in ValidAddKeys(rules) |-> rules.add[k]],
                                       SelectSeq(rules.strip,
                                                 LAMBDA k : IsSome(HeaderName_parse(k))))
                        d == [HdDefaults EXCEPT !.headers = valid(HdDefaults.headers)]
                        r == [HdRoute EXCEPT !.headers = valid(HdRoute.headers)]
                    IN  \E dkeys \in KeyOrders(d.headers.add),
                           rkeys \in KeyOrders(r.headers.add) :
                           Out(i) = build_forwarded_headers(Original, client_ip,
                                       HdRoute.targets[i], r, d, hd_cid, dkeys, rkeys)

C26_Witness ==
    /\ Dispatched
    /\ AddedValues(HdDefaults.headers, "x-tag") = { <<"d">> }
    /\ AddedValues(HdRoute.headers, "x-tag") = { <<"r">> }
    /\ HeaderGet(Original, "x-tag") = Some(<<"o">>)
    /\ HdDefaults.forward_headers
    /\ HeaderGet(Out(1), "x-tag") = Some(<<"r">>)

\* the X-Forwarded-For chain and X-Real-IP the claim describes, from incoming,
\* the value the chain starts from (None: the client IP alone)
ChainOn(incoming) ==
    IF IsSome(incoming) THEN Unwrap(incoming) \o <<",", " ">> \o client_ip ELSE client_ip
FirstOfChain(chain) == trim(TakeUntil(chain, ","))
CarriesChain(headers, incoming) ==
    /\ HeaderGet(headers, "x-forwarded-for") = Some(ChainOn(incoming))
    /\ HeaderGet(headers, "x-real-ip") = Some(FirstOfChain(ChainOn(incoming)))

ProxyHeaderNames ==
    {"x-forwarded-for", "x-real-ip", "x-forwarded-proto", "x-forwarded-host", "via",
     "x-correlation-id"}
Rewritten == {"host"} \cup (IF HdDefaults.proxy_headers THEN ProxyHeaderNames ELSE {})
EightHopByHop ==
    {"connection", "keep-alive", "transfer-encoding", "te", "trailer", "upgrade",
     "proxy-authorization", "proxy-authenticate"}

\* what the claim says of the original headers in names, for target i
HopByHopRule(i, names) ==
    /\ HdDefaults.strip_hop_by_hop =>
          \A n \in (DOMAIN Original \cap EightHopByHop) \cap names : n \notin DOMAIN Out(i)
    /\ HdDefaults.forward_headers =>
          \A n \in (DOMAIN Original \ (EightHopByHop \cup Rewritten)) \cap names :
             HeaderGet(Out(i), n) = Some(Original[n])
    /\ (HdDefaults.forward_headers /\ ~HdDefaults.strip_hop_by_hop) =>
          \A n \in (DOMAIN Original \cap EightHopByHop) \cap names :
             HeaderGet(Out(i), n) = Some(Original[n])

\* C28 as claimed: with strip_hop_by_hop enabled none of the eight hop-by-hop
\* headers of the original request reaches a target, while every other
\* original header is forwarded unchanged when forward_headers is true (apart
\* from Host and the rewritten proxy headers); with strip_hop_by_hop disabled
\* they are forwarded.
C28_HopByHop ==
    Dispatched =>
       \A i \in 1..Len(hd_sent) : HopByHopRule(i, DOMAIN Original)

\* C28, amended: the same, for every header that no header rule
\* (defaults.headers or route.headers, add or strip) names.
C28_HopByHopUnlessRuled ==
    Dispatched =>
       \A i \in 1..Len(hd_sent) : HopByHopRule(i, DOMAIN Original \ RuleNames)

C28_Witness ==
    /\ Dispatched
    /\ HdDefaults.strip_hop_by_hop
    /\ HdDefaults.forward_headers
    /\ HeaderGet(Original, "connection") = Some(<<"keep-alive">>)
    /\ HeaderGet(Original, "content-type") = Some(<<"application/json">>)
    /\ RuleNames = {}
    /\ "connection" \notin DOMAIN Out(1)
    /\ HeaderGet(Out(1), "content-type") = Some(<<"application/json">>)

(***************************************************************************)
(* Properties of substitute_params.                                        *)
(***************************************************************************)
\* the name of the placeholder that starts s: its longest prefix of name
\* characters
RECURSIVE NameRun(_)
NameRun(s) ==
    IF s /= << >> /\ Head(s) \in NameChars THEN <<Head(s)>> \o NameRun(Tail(s)) ELSE << >>

\* the template with every placeholder :name whose whole name is a key of
\* params replaced by that parameter's value, everything else kept
RECURSIVE PlaceholdersReplaced(_, _)
PlaceholdersReplaced(s, params) ==
    IF s = << >> THEN << >>
    ELSE IF Head(s) = ":" /\ NameRun(Tail(s)) /= << >>
    THEN LET name == NameRun(Tail(s))
             rest == SubSeq(s, Len(name) + 2, Len(s))
         IN  (IF name \in DOMAIN params THEN params[name] ELSE <<":">> \o name)
                \o PlaceholdersReplaced(rest, params)
    ELSE <<Head(s)>> \o PlaceholdersReplaced(Tail(s), params)

\* C29: substitute_params replaces every :name placeholder whose name is a
\* captured parameter by the parameter's value, and never rewrites part of a
\* placeholder :long with the value of a shorter parameter whose name is a
\* prefix of long, also when the map holds only the shorter name.
C29_WholePlaceholdersOnly ==
    sp_pc = "done" => sp_out = PlaceholdersReplaced(sp_template, sp_params)

\* the keys of params the text s begins with, after its colon
KeysAt(s, params) ==
    { k \in DOMAIN params : starts_with(s, <<":">> \o k) }

\* one simultaneous substitution: the template is read once from left to
\* right, a placeholder of the template is replaced by its parameter's value
\* (the longest key first) and the values put in are not read again
RECURSIVE Simultaneous(_, _)
Simultaneous(s, params) ==
    IF s = << >> THEN << >>
    ELSE IF KeysAt(s, params) /= {}
    THEN LET k == CHOOSE k \in KeysAt(s, params) :
                      \A other \in KeysAt(s, params) : Len(other) <= Len(k)
         IN  params[k] \o Simultaneous(SubSeq(s, Len(k) + 2, Len(s)), params)
    ELSE <<Head(s)>> \o Simultaneous(Tail(s), params)

\* C38: the result of substitute_params is the same for every order in which
\* the map's keys of equal length can be iterated, and it is the result of one
\* simultaneous substitution, in which the text a value brings in is not
\* rewritten by another parameter.
C38_SimultaneousSubstitution ==
    sp_pc = "done" =>
        /\ \A sorted_entries \in SortedEntries(sp_params) :
              substitute_params(sp_template, sp_params, sorted_entries) = sp_out
        /\ sp_out = Simultaneous(sp_template, sp_params)

(***************************************************************************)
(* The locking discipline on the live config cell.                         *)
(***************************************************************************)
\* reader r is past the block that holds the read guard: fan_out is about to
\* run or running
Dispatching(r) == rd[r].kind = "proxy" /\ rd[r].pc \in {"matched", "dispatched"}

\* the refresh loop is calling a config source
SourceIO == fpc \in {"has_changed", "load_primary", "load_fallback"}

\* C30: the proxy handler releases its read guard before any target dispatch
\* begins, and the refresher holds the write guard only while assigning
\* config, version and loaded_at, never while has_changed or
\* load_with_fallback is in progress.
C30_LockDiscipline ==
    /\ \A r \in Readers : Dispatching(r) => r \notin lock.readers
    /\ lock.writer => fpc \in {"write_version", "write_loaded_at"}
    /\ SourceIO => ~lock.writer

C30_Witness ==
    /\ \E r \in Readers : rd[r].pc = "dispatched" /\ r \notin lock.readers
    /\ fpc = "load_fallback"
    /\ hist.installed /= {Installed(StartupConfig(load("A").val))}

(***************************************************************************)
(* Properties of fan_out on validated routes.                              *)
(***************************************************************************)
FanStarted == fo_pc \in {"awaiting", "done"}

\* the smallest member of a non-empty set of numbers
Least(S) == CHOOSE n \in S : \A m \in S : n <= m

\* the 1-based positions of the targets marked primary
MarkedPrimary(targets) == { i \in 1..Len(targets) : targets[i].primary }

\* C32: the handle fan_out awaits is that of the first target marked primary,
\* or of target 0 when none is marked, and of no other target; every target is
\* passed to tokio::spawn at most once and each spawned target other than that
\* one is left to run as a secondary; the response forwarded to the caller is
\* the one of that target.
C32_PrimaryAndSecondaries ==
    FanStarted =>
        LET targets == fo_route.targets
            p == IF MarkedPrimary(targets) = {} THEN 0
                 ELSE Least(MarkedPrimary(targets)) - 1
        IN  /\ \A i, j \in 1..Len(fo_spawned) :
                  i /= j => fo_spawned[i] /= fo_spawned[j]
            /\ \A i \in 1..Len(fo_spawned) : fo_spawned[i] \in 0..(Len(targets) - 1)
            /\ fo_primary_handle \in {None, Some(p)}
            /\ fo_primary_handle = Some(p) <=> Count(fo_spawned, p) = 1
            /\ (fo_pc = "done" /\ Unwrap(fo_resp).status /= 502) =>
                  Unwrap(fo_resp).body = Some(p)
            /\ (fo_pc = "awaiting") => fo_primary_handle = Some(p)

\* the route declares a secondary before its primary; both were dispatched once
\* and the caller got the answer of the target marked primary
C32_Witness ==
    /\ fo_pc = "done"
    /\ Len(fo_route.targets) = 2
    /\ fo_route.targets[2].primary
    /\ fo_spawned = <<0, 1>>
    /\ fo_primary_handle = Some(1)
    /\ fo_tasks[0].st = "RESPONDED_OK"
    /\ Unwrap(fo_resp).body = Some(1)

\* the first defined of a sequence of Options
RECURSIVE FirstDefined(_)
FirstDefined(opts) ==
    IF IsSome(Head(opts)) THEN Unwrap(Head(opts)) ELSE FirstDefined(Tail(opts))

\* C33: the timeout of every dispatch fan_out prepares is the first defined of
\* the target's timeout, the route's timeout and the timeout of the defaults
\* fan_out was given, which are those of the request's snapshot.
C33_EffectiveTimeout ==
    FanStarted =>
        \A idx \in DOMAIN fo_tasks :
            fo_tasks[idx].timeout_ms =
                FirstDefined(<< fo_route.targets[idx + 1].timeout,
                                fo_route.timeout,
                                Some(fo_defaults.timeout) >>)

\* one request with a target that sets its own timeout under a route that sets
\* one too, and a target that sets none
C33_Witness ==
    /\ FanStarted
    /\ IsSome(fo_route.timeout)
    /\ \E idx \in DOMAIN fo_tasks :
          /\ IsSome(fo_route.targets[idx + 1].timeout)
          /\ fo_tasks[idx].timeout_ms = Unwrap(fo_route.targets[idx + 1].timeout)
    /\ \E idx \in DOMAIN fo_tasks :
          /\ ~IsSome(fo_route.targets[idx + 1].timeout)
          /\ fo_tasks[idx].timeout_ms = Unwrap(fo_route.timeout)

\* the targets of the request whose resolved URL url::Url::parse accepts
Parsing(sorted_entries) ==
    { idx \in 0..(Len(fo_route.targets) - 1) :
        UrlParses(substitute_params(fo_route.targets[idx + 1].url, fo_params, sorted_entries)) }

\* the request's primary target
FanPrimary == primary_idx(fo_route.targets)

\* C39: the targets dispatched are exactly those whose resolved URL parses,
\* whatever the other targets' URLs; when the primary's URL does not parse the
\* caller gets 502 and failed is incremented, the secondaries that parse being
\* dispatched all the same; when the primary's URL parses the caller gets what
\* the primary's outcome alone decides.
C39_SkippedTargetAlone ==
    FanStarted =>
        \E sorted_entries \in SortedEntries(fo_params) :
            LET ok == Parsing(sorted_entries)
            IN  /\ { fo_spawned[i] : i \in 1..Len(fo_spawned) } = ok
                /\ Len(fo_spawned) = Cardinality(ok)
                /\ \A idx \in DOMAIN fo_tasks : fo_tasks[idx].st = "SKIPPED" <=> idx \notin ok
                /\ FanPrimary \notin ok =>
                      /\ fo_pc = "done"
                      /\ fo_resp = Some(BAD_GATEWAY)
                      /\ fo_failed = 1 /\ fo_forwarded = 0
                /\ (FanPrimary \in ok /\ fo_pc = "done") =>
                      IF fo_tasks[FanPrimary].st = "RESPONDED_OK"
                      THEN /\ fo_resp = Some([status |-> fo_tasks[FanPrimary].status,
                                              body |-> Some(FanPrimary)])
                           /\ fo_forwarded = 1 /\ fo_failed = 0
                      ELSE /\ fo_resp = Some(BAD_GATEWAY)
                           /\ fo_failed = 1 /\ fo_forwarded = 0

\* a secondary declared before the primary was skipped and the caller got the
\* primary's 200
C39_Witness ==
    /\ fo_pc = "done"
    /\ Len(fo_route.targets) = 2
    /\ FanPrimary = 1
    /\ fo_tasks[0].st = "SKIPPED"
    /\ fo_spawned = <<1>>
    /\ fo_resp = Some([status |-> 200, body |-> Some(1)])
    /\ fo_forwarded = 1

(***************************************************************************)
(* Properties of prefix-wildcard routes.                                   *)
(***************************************************************************)
\* whether request segments q begin with the segments ps, compared as text
LiteralPrefix(ps, q) ==
    /\ Len(q) >= Len(ps)
    /\ \A j \in 1..Len(ps) : q[j] = ps[j]

\* C36: a prefix-wildcard route p1/../pk/* that accepts the method is a
\* candidate for a request iff the request has at least k segments and its
\* first k equal p1..pk as text, a `:name` segment included; it is then
\* returned, without parameters, unless another route scores more than 10*k or
\* an earlier one scores 10*k, and a request not beginning with its prefix
\* never returns it.
C36_PrefixWildcard ==
    Matched =>
        \A i \in 1..Len(routes) :
            (IsPrefixWildcard(routes[i]) /\ AcceptsMethod(routes[i], method)) =>
                LET ps == PrefixSegs(routes[i])
                    hit == LiteralPrefix(ps, Segments(path))
                    others == [j \in 1..Len(routes) |-> RuleScore(routes[j], path, method)]
                    beaten == \/ \E j \in 1..Len(routes) : others[j] > 10 * Len(ps)
                              \/ \E j \in 1..(i - 1) : others[j] = 10 * Len(ps)
                    returned == IsSome(result) /\ Unwrap(result).idx = i - 1
                IN  /\ returned => hit /\ Unwrap(result).params = EmptyMap
                    /\ hit => IsSome(result)
                    /\ hit => (returned <=> ~beaten)

\* the request /a is matched by /a/*, whose prefix it equals, and not by /:x/*
C36_Witness ==
    /\ Matched
    /\ Len(routes) = 2
    /\ routes[1].path = <<"/", ":", "x", "/", "*">>
    /\ routes[2].path = <<"/", "a", "/", "*">>
    /\ path = <<"/", "a">>
    /\ result = Some([idx |-> 1, params |-> EmptyMap])

(***************************************************************************)
(* Properties of the startup overrides across reloads.                     *)
(***************************************************************************)
\* the payload the proxy of SpecCell was started on, and what execute made of it
StartupPayload == "A"
StartupLoaded == StartupConfig(load(StartupPayload).val)

\* the payloads whose defaults.timeout is that of the startup payload
SameTimeoutPayloads ==
    { c \in Contents :
        /\ deserialize(c).ok
        /\ deserialize(c).val.defaults.timeout
              = deserialize(StartupPayload).val.defaults.timeout }

\* C37: a request served from a config that came from a payload whose
\* defaults.timeout is the one of the startup payload dispatches a target
\* without target or route timeout with the timeout such a target had at
\* startup.
C37_TimeoutStableAcrossReloads ==
    \A r \in Readers :
        (rd[r].pc = "dispatched" /\ rd[r].kind = "proxy") =>
            LET config == request_config(r)
                route == config.routes[Unwrap(rd[r].matched).idx + 1]
                used == Unwrap(rd[r].used)
            IN  (\E c \in SameTimeoutPayloads : config.routes = deserialize(c).val.routes) =>
                    \A i \in 1..Len(route.targets) :
                        (~IsSome(route.targets[i].timeout) /\ ~IsSome(route.timeout)) =>
                            used.timeouts[i] = StartupLoaded.config.defaults.timeout

(***************************************************************************)
(* Properties of the actuator next to the refresh loop.                    *)
(***************************************************************************)
AcUnderWay(t) == ac_rq[t].pc \notin {"idle", "done"}

\* C34: the lock never ends up with the refresh loop waiting for the write
\* guard, or a request under way, and no step left to take: no task asks for a
\* read guard while it holds one, so whenever the loop waits for its write or a
\* request is under way, the loop or a request can take a step.
C34_DeadlockFree ==
    /\ \A t \in AcTasks :
          (ac_rq[t].pc = "handler" /\ reads_config(ac_rq[t].endpoint)) => ac_rq[t].held = 0
    /\ (ac_fpc = "write" \/ \E t \in AcTasks : AcUnderWay(t)) => ENABLED AcProgress

\* whether the header carries the pair user:pass under the Basic scheme
Carries(authorization, user, pass) ==
    /\ IsSome(authorization)
    /\ Unwrap(authorization).scheme = "Basic"
    /\ Unwrap(authorization).decoded = <<user, ":", pass>>

\* C35: when credentials were in effect at startup and the actuator is
\* enabled, a request to the actuator that does not carry them never reaches a
\* handler and is answered 401, after any reloads of payloads from which no
\* edit took credentials out.
C35_AuthSurvivesReloads ==
    (/\ IsSome(ac_start.auth.username) /\ IsSome(ac_start.auth.password)
     /\ ac_start.enabled
     /\ ~ac_removed) =>
        \A t \in AcTasks :
            (/\ ac_rq[t].kind = "actuator"
             /\ ~Carries(ac_rq[t].authorization, Unwrap(ac_start.auth.username),
                         Unwrap(ac_start.auth.password))) =>
                /\ ac_rq[t].pc \notin {"handler", "handler_holding"}
                /\ ac_rq[t].pc = "done" => ac_rq[t].status = 401

(***************************************************************************)
(* Properties of the configs that reach the live config cell.              *)
(***************************************************************************)
MethodNames == {"GET", "POST", "PUT", "DELETE", "PATCH", "HEAD", "OPTIONS", "*"}

\* C31: the config in the cell, from startup on and after every reload, from
\* the primary or the fallback source, has at least one route, at least one
\* target in every route, no two routes of the same path, at most one primary
\* target in a route and only method names of the known set, in any case.
C31_LiveConfigWellFormed ==
    LET rts == cell.config.routes
    IN  /\ Len(rts) >= 1
        /\ \A i \in 1..Len(rts) :
              /\ Len(rts[i].targets) >= 1
              /\ \A j \in 1..Len(rts) : rts[i].path = rts[j].path => i = j
              /\ \A k, l \in 1..Len(rts[i].targets) :
                    (rts[i].targets[k].primary /\ rts[i].targets[l].primary) => k = l
              /\ \A k \in 1..Len(rts[i].methods) :
                    \E name \in MethodNames : eq_ignore_ascii_case(rts[i].methods[k], name)

\* the primary holds a payload with two primaries in a route, the reload took
\* the fallback's config instead
C31_Witness ==
    /\ src.primary = "P"
    /\ src.fallback = "F"
    /\ reloads >= 1
    /\ cell.config = deserialize("F").val
    /\ fpc = "select"

====
